---- MODULE Spec2Model ----
(***************************************************************************)
(* A model of edgar-cli's research core (src/src/commands/research.ts):    *)
(* the corpus sync orchestrator, the cache/manifest store, the             *)
(* identifier-scoped query path, the chunking engine and the lexical       *)
(* ranking engine.                                                         *)
(*                                                                         *)
(* Conventions.  A JavaScript string that the code only passes around is a *)
(* TLA+ string; null is the marker Null and a missing / non-string JSON    *)
(* property is the marker Undef.  Text the code inspects character by      *)
(* character (documents, queries) is a sequence of one-character strings.  *)
(***************************************************************************)
EXTENDS Integers, Sequences, FiniteSets, TLC

VARIABLES
  catalog,    \* remote: the entity's recent filings, as zipRecentFilings yields them
  gone,       \* remote: accessions whose primary document answers 404
  files,      \* disk: cached document path -> content (DOMAIN = existing files)
  manifests,  \* disk: manifest path -> raw file content (DOMAIN = existing files)
  loc,        \* per process: the locals of the command handler it is running
  active,     \* the processes that issue commands
  lastOk,     \* history: key of the latest runResearchSync call if it succeeded
  call,       \* a function called directly: its name and arguments
  ret,        \* what the latest direct call returned
  calls,      \* the number of direct calls made
  search,     \* a runLexicalSearch call in progress and its document reads
  http,       \* a SecClient request in progress
  cli         \* a command line invocation in progress

vars ==
  <<catalog, gone, files, manifests, loc, active, lastOk, call, ret, calls,
    search, http, cli>>

Procs == {"p1", "p2"}

Null == "<null>"
Undef == "<undefined>"

-----------------------------------------------------------------------------
(* Generic helpers *)

Range(s) == {s[i] : i \in 1..Len(s)}

Min(a, b) == IF a <= b THEN a ELSE b

Max(a, b) == IF a >= b THEN a ELSE b

Take(s, n) == SubSeq(s, 1, Min(n, Len(s)))

-----------------------------------------------------------------------------
(* Errors: CLIError carries a code and a message; a raw Node error (mkdir, *)
(* writeFile) is not a CLIError and is given the code ERRNO.               *)

NoErr == [code |-> "", msg |-> "", id |-> "", profile |-> ""]

Err(code, msg) == [code |-> code, msg |-> msg, id |-> "", profile |-> ""]

-----------------------------------------------------------------------------
(* The remote side: ticker map and filing catalogs *)

\* src/src/sec/ticker-map.ts: the record company_tickers.json holds.
TickerMap == {[ticker |-> "AAPL", cik |-> "0000320193", title |-> "Apple Inc."]}

Ids == {"AAPL", "NOPE"}

NoEntity == [ok |-> FALSE, cik |-> "", ticker |-> Null, title |-> Null]

\* resolveEntity for a ticker id: the matching record or NOT_FOUND.
resolveEntity(id) ==
  IF \E r \in TickerMap : r.ticker = id
    THEN LET r == CHOOSE r \in TickerMap : r.ticker = id
         IN [ok |-> TRUE, cik |-> r.cik, ticker |-> r.ticker, title |-> r.title]
    ELSE NoEntity

Row(acc, form, fdate, url) ==
  [accession |-> acc, form |-> form, filingDate |-> fdate,
   reportDate |-> Null, filingUrl |-> url]

A1 == "0000320193-24-000001"
A2 == "0000320193-25-000002"
A3 == "0000320193-25-000003"
A4 == "0000320193-25-000004"

Url(acc) == "https://www.sec.gov/Archives/" \o acc

\* Catalogs the remote may hold.  CatalogA: one filing per core rule, one of
\* them without a primary document.  CatalogB: an undated 10-Q, an 8-K older
\* than 180 days, a lower-case form, an accession listed twice, and two
\* filings of the same day; its 8-K document answers 404.
CatalogA ==
  << Row(A3, "8-K", "2025-06-15", Url(A3)),
     Row(A2, "10-Q", "2025-05-02", Null),
     Row(A1, "10-K", "2024-11-01", Url(A1)) >>

CatalogB ==
  << Row(A4, "10-q", Null, Url(A4)),
     Row(A3, "8-K", "2025-02-01", Url(A3)),
     Row(A2, "10-Q", "2025-05-02", Url(A2)),
     Row(A2, "10-K", "2025-05-02", Url(A2)),
     Row(A1, "10-K", "2025-05-02", Url(A1)) >>

Accessions == {A1, A2, A3, A4}

\* What the remote holds: a catalog and the accessions whose document is gone.
Remotes == {[catalog |-> CatalogA, gone |-> {}], [catalog |-> CatalogB, gone |-> {A3}]}

-----------------------------------------------------------------------------
(* Strings the code compares or converts *)

\* The strings compared with <, > or localeCompare, in ascending order.
StrOrder ==
  << "", "2024-11-01", "2024-11-02", "2025-02-01", "2025-05-02", "2025-05-06",
     "2025-06-15" >>

StrRank(s) == CHOOSE i \in 1..Len(StrOrder) : StrOrder[i] = s

StrLess(a, b) == StrRank(a) < StrRank(b)

\* String.prototype.toUpperCase on the form names in use.
toUpperCase(s) ==
  CASE s = "10-k" -> "10-K"
    [] s = "10-q" -> "10-Q"
    [] s = "8-k" -> "8-K"
    [] OTHER -> s

\* dateDaysAgo with the clock at 2025-11-02.
dateDaysAgo(days) ==
  CASE days = 180 -> "2025-05-06"
    [] days = 365 -> "2024-11-02"

\* a ?? ''
OrEmpty(s) == IF s = Null THEN "" ELSE s

\* dateInRange(value, from, undefined); from = Undef stands for undefined.
dateInRange(value, from) ==
  IF from = Undef THEN TRUE
  ELSE IF StrLess(value, from) THEN FALSE
  ELSE TRUE

-----------------------------------------------------------------------------
(* Profiles *)

Profiles == {"core", "events", "financials"}

\* recentDays = 0 stands for an absent recentDays.
Rule(form, queryLimit, recentDays) ==
  [form |-> form, queryLimit |-> queryLimit, recentDays |-> recentDays]

PROFILE_RULES ==
  [core |-> <<Rule("10-K", 1, 0), Rule("10-Q", 3, 0), Rule("8-K", 12, 180)>>,
   events |-> <<Rule("8-K", 24, 365)>>,
   financials |-> <<Rule("10-K", 2, 0), Rule("10-Q", 6, 0)>>]

\* runFilingsList({form, from, queryLimit}): filter, then slice(0, queryLimit).
runFilingsList(rows, form, from, queryLimit) ==
  LET normalizedForm == toUpperCase(form)
      Keep(row) ==
        /\ toUpperCase(OrEmpty(row.form)) = normalizedForm
        /\ IF row.filingDate = Null \/ row.filingDate = ""
             THEN from = Undef
             ELSE dateInRange(row.filingDate, from)
  IN Take(SelectSeq(rows, Keep), queryLimit)

\* The rows one rule contributes.
RuleRows(rows, rule) ==
  runFilingsList(rows, rule.form,
                 IF rule.recentDays # 0 THEN dateDaysAgo(rule.recentDays) ELSE Undef,
                 rule.queryLimit)

\* selectedByAccession.set without the has() test: a later row replaces the
\* stored one.
RECURSIVE MergeRowsLastWins(_, _)
MergeRowsLastWins(selected, rows) ==
  IF rows = <<>> THEN selected
  ELSE LET row == Head(rows)
       IN IF \E i \in 1..Len(selected) : selected[i].accession = row.accession
            THEN MergeRowsLastWins(
                   [i \in 1..Len(selected) |->
                      IF selected[i].accession = row.accession THEN row
                      ELSE selected[i]],
                   Tail(rows))
            ELSE MergeRowsLastWins(Append(selected, row), Tail(rows))

\* selectedByAccession after merging rows: first row of an accession wins.
RECURSIVE MergeRows(_, _)
MergeRows(selected, rows) ==
  IF rows = <<>> THEN selected
  ELSE LET row == Head(rows)
       IN IF \E i \in 1..Len(selected) : selected[i].accession = row.accession
            THEN MergeRows(selected, Tail(rows))
            ELSE MergeRows(Append(selected, row), Tail(rows))

\* The comparator with its operands exchanged: ascending dates.
CompareRowsAscending(a, b) ==
  StrRank(OrEmpty(a.filingDate)) - StrRank(OrEmpty(b.filingDate))

\* The comparator of the selection sort: negative when a goes first.
CompareRows(a, b) == StrRank(OrEmpty(b.filingDate)) - StrRank(OrEmpty(a.filingDate))

\* Array.prototype.sort is stable: x goes before the first element that the
\* comparator puts strictly after it.
InsertRow(sorted, x) ==
  LET later == {i \in 1..Len(sorted) : CompareRows(sorted[i], x) > 0}
      at == IF later = {} THEN Len(sorted) + 1
            ELSE CHOOSE i \in later : \A j \in later : i <= j
  IN SubSeq(sorted, 1, at - 1) \o <<x>> \o SubSeq(sorted, at, Len(sorted))

RECURSIVE SortRows(_)
SortRows(rows) ==
  IF rows = <<>> THEN <<>>
  ELSE InsertRow(SortRows(SubSeq(rows, 1, Len(rows) - 1)), rows[Len(rows)])

-----------------------------------------------------------------------------
(* Cache paths *)

CacheRoots == {"/cache"}

companyCacheDir(cacheRoot, cik) == cacheRoot \o "/research/companies/" \o cik

profileManifestPath(cacheRoot, cik, profile) ==
  companyCacheDir(cacheRoot, cik) \o "/profiles/" \o profile \o ".json"

filingDocPath(cacheRoot, cik, accession) ==
  companyCacheDir(cacheRoot, cik) \o "/filings/" \o accession \o ".md"

-----------------------------------------------------------------------------
(* Remote documents: the markdown runFilingsGet returns for an accession *)

MarkdownA1 ==
  << "I", "n", "d", "i", "c", "a", "t", "e", " ", "b", "y", " ", "c", "h",
     "e", "c", "k", " ", "m", "a", "r", "k", "\n", "R", "e", "v", "e", "n",
     "u", "e", " ", "g", "u", "i", "d", "a", "n", "c", "e", " ", "c", "h",
     "a", "n", "g", "e", "d" >>

MarkdownA2 ==
  << "Q", "u", "a", "r", "t", "e", "r", "l", "y", " ", "r", "e", "v", "e",
     "n", "u", "e", " ", "r", "o", "s", "e", "\n" >>

MarkdownA3 ==
  << "#", " ", "I", "t", "e", "m", " ", "5", ".", "0", "2", "\n", "D", "r",
     "e", "l", "l", " ", "r", "e", "s", "i", "g", "n", "e", "d", " ", "f",
     "r", "o", "m", " ", "t", "h", "e", " ", "B", "o", "a", "r", "d", "\n" >>

MarkdownA4 == << >>

RemoteMarkdown(acc) ==
  CASE acc = A1 -> MarkdownA1
    [] acc = A2 -> MarkdownA2
    [] acc = A3 -> MarkdownA3
    [] OTHER -> MarkdownA4

\* content.endsWith('\n') ? content : content + '\n'
WithFinalNewline(content) ==
  IF content # <<>> /\ content[Len(content)] = "\n" THEN content
  ELSE Append(content, "\n")

\* What an interrupted writeFile can leave behind: a strict prefix.
Truncated(content) == SubSeq(content, 1, Len(content) \div 2)

-----------------------------------------------------------------------------
(* Cache/manifest store.  A manifest file holds either text JSON.parse     *)
(* rejects (kind "garbage") or a JSON value (kind "json").  A JSON value   *)
(* is kept as a record: obj and docsIsArray tell whether the value and its *)
(* docs property have the expected JSON type; a property that is missing   *)
(* or not a string is Undef, a JSON null is Null.                          *)

\* A descriptor that records the file name instead of the absolute path.
CachedDocRelative(row, docPath) ==
  [accession |-> row.accession, form |-> row.form, filing_date |-> row.filingDate,
   report_date |-> row.reportDate, filing_url |-> row.filingUrl,
   path |-> row.accession \o ".md"]

CachedDoc(row, docPath) ==
  [accession |-> row.accession, form |-> row.form, filing_date |-> row.filingDate,
   report_date |-> row.reportDate, filing_url |-> row.filingUrl, path |-> docPath]

JsonDoc(doc) ==
  [obj |-> TRUE, accession |-> doc.accession, form |-> doc.form,
   filing_date |-> doc.filing_date, report_date |-> doc.report_date,
   filing_url |-> doc.filing_url, path |-> doc.path]

NoJson ==
  [obj |-> FALSE, version |-> 0, id_input |-> Undef, cik |-> Undef, ticker |-> Undef,
   title |-> Undef, profile |-> Undef, synced_at |-> Undef, docsIsArray |-> FALSE,
   docs |-> <<>>]

\* JSON.stringify(manifest, null, 2): every own property, in order.
JsonStringify(manifest) ==
  [kind |-> "json",
   value |-> [obj |-> TRUE, version |-> manifest.version,
              id_input |-> manifest.id_input, cik |-> manifest.cik,
              ticker |-> manifest.ticker, title |-> manifest.title,
              profile |-> manifest.profile, synced_at |-> manifest.synced_at,
              docsIsArray |-> TRUE,
              docs |-> [i \in 1..Len(manifest.docs) |-> JsonDoc(manifest.docs[i])]]]

Garbage == [kind |-> "garbage", value |-> NoJson]

\* JSON.parse(raw): the value, or a SyntaxError (ok = FALSE).
JsonParse(raw) == [ok |-> raw.kind = "json", value |-> raw.value]

IsStringProp(v) == v # Undef /\ v # Null

ManifestVersion == 1

\* A validation that looks at the container types only.
parseCachedManifestLenient(value) == value.obj /\ value.docsIsArray

\* parseCachedManifest: TRUE iff the value passes; the value itself is returned.
parseCachedManifest(value) ==
  /\ value.obj
  /\ value.version = ManifestVersion
  /\ IsStringProp(value.cik)
  /\ value.docsIsArray
  /\ \A i \in 1..Len(value.docs) :
       /\ value.docs[i].obj
       /\ IsStringProp(value.docs[i].path)
       /\ IsStringProp(value.docs[i].accession)

NoRead == [status |-> "absent", err |-> NoErr, manifest |-> NoJson]

\* readCachedManifest on a readable disk: null ("absent"), the manifest, or
\* the CLIError thrown.
readCachedManifest(disk, cacheRoot, cik, profile) ==
  LET manifestPath == profileManifestPath(cacheRoot, cik, profile)
  IN IF manifestPath \notin DOMAIN disk THEN NoRead
     ELSE LET parsed == JsonParse(disk[manifestPath])
          IN IF ~parsed.ok
               THEN [status |-> "error",
                     err |-> Err("PARSE_ERROR", "Cached manifest is not valid JSON"),
                     manifest |-> NoJson]
             ELSE IF ~parseCachedManifest(parsed.value)
               THEN [status |-> "error",
                     err |-> Err("PARSE_ERROR", "Cached manifest is malformed"),
                     manifest |-> NoJson]
             ELSE [status |-> "ok", err |-> NoErr, manifest |-> parsed.value]

\* readFile failing with something other than ENOENT.
ReadFailure ==
  [status |-> "error",
   err |-> Err("VALIDATION_ERROR", "Unable to read cached manifest"),
   manifest |-> NoJson]

\* The disk with `raw` stored at `path` (writeFile replaces the content).
PutFile(disk, path, raw) ==
  [q \in DOMAIN disk \cup {path} |-> IF q = path THEN raw ELSE disk[q]]

\* A write that files the manifest under the id the user typed.
writeCachedManifestById(disk, cacheRoot, manifest) ==
  PutFile(disk, profileManifestPath(cacheRoot, manifest.id_input, manifest.profile),
          JsonStringify(manifest))

\* A write that patches the file: descriptors of the old manifest that the
\* new one does not name are kept behind the new ones.
writeCachedManifestPatching(disk, cacheRoot, manifest) ==
  LET manifestPath == profileManifestPath(cacheRoot, manifest.cik, manifest.profile)
      fresh == JsonStringify(manifest)
      old == IF manifestPath \in DOMAIN disk /\ disk[manifestPath].kind = "json"
               THEN disk[manifestPath].value.docs ELSE <<>>
      Kept(d) == \A i \in 1..Len(fresh.value.docs) :
                   fresh.value.docs[i].accession # d.accession
  IN PutFile(disk, manifestPath,
             [fresh EXCEPT !.value.docs = @ \o SelectSeq(old, Kept)])

\* writeCachedManifest: the manifests on disk afterwards.
writeCachedManifest(disk, cacheRoot, manifest) ==
  PutFile(disk, profileManifestPath(cacheRoot, manifest.cik, manifest.profile),
          JsonStringify(manifest))

\* nowIso(); the clock is not modelled.
nowIso == "2025-11-02T00:00:00Z"

-----------------------------------------------------------------------------
(* Text: a string the code scans is a sequence of one-character strings *)

UpperLetters ==
  << "A", "B", "C", "D", "E", "F", "G", "H", "I", "J", "K", "L", "M", "N",
     "O", "P", "Q", "R", "S", "T", "U", "V", "W", "X", "Y", "Z" >>

LowerLetters ==
  << "a", "b", "c", "d", "e", "f", "g", "h", "i", "j", "k", "l", "m", "n",
     "o", "p", "q", "r", "s", "t", "u", "v", "w", "x", "y", "z" >>

Digits == {"0", "1", "2", "3", "4", "5", "6", "7", "8", "9"}

LowerChar(c) ==
  IF \E i \in 1..Len(UpperLetters) : UpperLetters[i] = c
    THEN LowerLetters[CHOOSE i \in 1..Len(UpperLetters) : UpperLetters[i] = c]
    ELSE c

\* String.prototype.toLowerCase
toLowerCase(text) == [i \in 1..Len(text) |-> LowerChar(text[i])]

\* the class [a-z0-9]
IsAlnum(c) == c \in Range(LowerLetters) \cup Digits

\* the white space String.prototype.trim removes
IsSpace(c) == c \in {" ", "\t", "\n", "\r"}

\* String.prototype.trim
Trim(text) ==
  LET solid == {i \in 1..Len(text) : ~IsSpace(text[i])}
  IN IF solid = {} THEN <<>>
     ELSE SubSeq(text, CHOOSE i \in solid : \A j \in solid : i <= j,
                       CHOOSE i \in solid : \A j \in solid : i >= j)

\* content.split(/\r?\n/)
SplitLines(content) ==
  LET breaks == {i \in 1..Len(content) : content[i] = "\n"}
      LineEnd(from) ==
        IF \E i \in breaks : i >= from
          THEN CHOOSE i \in breaks : i >= from /\ \A j \in breaks : j >= from => i <= j
          ELSE Len(content) + 1
      Piece(from) ==
        LET to == LineEnd(from)
            last == IF to <= Len(content) /\ to - 1 >= from /\ content[to - 1] = "\r"
                      THEN to - 2 ELSE to - 1
        IN SubSeq(content, from, last)
      starts == {1} \cup {i + 1 : i \in breaks}
      Nth[n \in 1..Cardinality(starts)] ==
        IF n = 1 THEN 1
        ELSE CHOOSE i \in starts : i > Nth[n - 1] /\
                                   \A j \in starts : j > Nth[n - 1] => i <= j
  IN [n \in 1..Cardinality(starts) |-> Piece(Nth[n])]

\* lines.join('\n')
RECURSIVE JoinLines(_)
JoinLines(lines) ==
  IF lines = <<>> THEN <<>>
  ELSE IF Len(lines) = 1 THEN lines[1]
  ELSE lines[1] \o <<"\n">> \o JoinLines(Tail(lines))

\* text.includes(part)
Includes(text, part) ==
  \E i \in 0..(Len(text) - Len(part)) :
    \A j \in 1..Len(part) : text[i + j] = part[j]

\* The characters of a token as one string.
RECURSIVE Str(_)
Str(chars) == IF chars = <<>> THEN "" ELSE Head(chars) \o Str(Tail(chars))

\* value.match(/[a-z0-9]+/g): the maximal runs of [a-z0-9], left to right.
RECURSIVE Runs(_, _)
Runs(text, run) ==
  IF text = <<>> THEN (IF run = <<>> THEN <<>> ELSE <<run>>)
  ELSE IF IsAlnum(Head(text)) THEN Runs(Tail(text), Append(run, Head(text)))
  ELSE (IF run = <<>> THEN <<>> ELSE <<run>>) \o Runs(Tail(text), <<>>)

MinTokenLength == 2

\* tokenize
tokenize(value) ==
  LET LongEnough(token) == Len(token) >= MinTokenLength
  IN SelectSeq(Runs(toLowerCase(value), <<>>), LongEnough)

\* [...new Set(tokens)]: first occurrences, in order.
RECURSIVE uniqueTokens(_)
uniqueTokens(tokens) ==
  IF tokens = <<>> THEN <<>>
  ELSE LET rest == uniqueTokens(SubSeq(tokens, 1, Len(tokens) - 1))
           t == tokens[Len(tokens)]
       IN IF t \in Range(rest) THEN rest ELSE Append(rest, t)

\* buildTermFrequency: token -> number of occurrences.
buildTermFrequency(tokens) ==
  [t \in Range(tokens) |-> Cardinality({i \in 1..Len(tokens) : tokens[i] = t})]

\* termFrequency.get(term) ?? 0
Tf(termFrequency, term) ==
  IF term \in DOMAIN termFrequency THEN termFrequency[term] ELSE 0

-----------------------------------------------------------------------------
(* Chunking engine *)

\* extractAccession: the accession in a cached document's path, else null.
extractAccession(docPath) ==
  IF \E root \in CacheRoots, t \in TickerMap, a \in Accessions :
       docPath = filingDocPath(root, t.cik, a)
    THEN CHOOSE a \in Accessions :
           \E root \in CacheRoots, t \in TickerMap :
             docPath = filingDocPath(root, t.cik, a)
    ELSE Null

\* The loop with break where the code has continue: it ends at the first
\* window without text.
RECURSIVE ChunkLoopStopsAtBlank(_, _, _, _, _)
ChunkLoopStopsAtBlank(docPath, lines, chunkLines, step, lineIdx) ==
  IF ~(lineIdx < Len(lines)) THEN <<>>
  ELSE LET start == lineIdx
           endExclusive == Min(Len(lines), start + chunkLines)
           text == Trim(JoinLines(SubSeq(lines, start + 1, endExclusive)))
           tokens == tokenize(text)
           chunk == [docPath |-> docPath, accession |-> extractAccession(docPath),
                     lineStart |-> start + 1, lineEnd |-> endExclusive,
                     text |-> text, tokenCount |-> Len(tokens),
                     termFrequency |-> buildTermFrequency(tokens)]
           rest == IF endExclusive >= Len(lines) THEN <<>>
                   ELSE ChunkLoopStopsAtBlank(docPath, lines, chunkLines, step,
                                              lineIdx + step)
       IN IF Len(text) = 0 THEN <<>> ELSE <<chunk>> \o rest

\* The loop of chunkDocument from lineIdx on (lineIdx counts from 0).
RECURSIVE ChunkLoop(_, _, _, _, _)
ChunkLoop(docPath, lines, chunkLines, step, lineIdx) ==
  IF ~(lineIdx < Len(lines)) THEN <<>>
  ELSE LET start == lineIdx
           endExclusive == Min(Len(lines), start + chunkLines)
           text == Trim(JoinLines(SubSeq(lines, start + 1, endExclusive)))
           tokens == tokenize(text)
           chunk == [docPath |-> docPath, accession |-> extractAccession(docPath),
                     lineStart |-> start + 1, lineEnd |-> endExclusive,
                     text |-> text, tokenCount |-> Len(tokens),
                     termFrequency |-> buildTermFrequency(tokens)]
           rest == IF endExclusive >= Len(lines) THEN <<>>
                   ELSE ChunkLoop(docPath, lines, chunkLines, step, lineIdx + step)
       IN IF Len(text) = 0 THEN rest ELSE <<chunk>> \o rest

\* A chunker whose window advances by its full size: the overlap is ignored.
chunkDocumentNoOverlap(docPath, content, chunkLines, chunkOverlap) ==
  ChunkLoop(docPath, SplitLines(content), chunkLines, chunkLines, 0)

\* chunkDocument
chunkDocument(docPath, content, chunkLines, chunkOverlap) ==
  ChunkLoop(docPath, SplitLines(content), chunkLines,
            Max(1, chunkLines - chunkOverlap), 0)

-----------------------------------------------------------------------------
(* Lexical ranking engine.  Scores are fixed-point: a BM25 base score is an  *)
(* integer number of thousandths; an adjusted score is the base score times  *)
(* the coverage multiplier in hundredths, the bigram multiplier in          *)
(* twenty-fifths and the boilerplate multiplier in twentieths, so one       *)
(* thousandth is ScoreUnit = 100 * 25 * 20 units of adjusted score.         *)

QUERY_STOPWORDS ==
  {"a", "an", "and", "are", "as", "at", "be", "by", "for", "from", "how", "in",
   "into", "is", "it", "its", "of", "on", "or", "that", "the", "their", "there",
   "these", "they", "this", "to", "was", "were", "what", "when", "where",
   "which", "who", "why", "with"}

COVER_BOILERPLATE_PATTERNS ==
  {<< "s", "e", "c", "u", "r", "i", "t", "i", "e", "s", " ", "r", "e", "g",
      "i", "s", "t", "e", "r", "e", "d", " ", "p", "u", "r", "s", "u", "a",
      "n", "t", " ", "t", "o", " ", "s", "e", "c", "t", "i", "o", "n", " ",
      "1", "2", "(", "b", ")" >>,
   << "i", "n", "d", "i", "c", "a", "t", "e", " ", "b", "y", " ", "c", "h",
      "e", "c", "k", " ", "m", "a", "r", "k" >>,
   << "c", "o", "m", "m", "i", "s", "s", "i", "o", "n", " ", "f", "i", "l",
      "e", " ", "n", "u", "m", "b", "e", "r" >>,
   << "f", "o", "r", " ", "t", "h", "e", " ", "q", "u", "a", "r", "t", "e",
      "r", "l", "y", " ", "p", "e", "r", "i", "o", "d", " ", "e", "n", "d",
      "e", "d" >>,
   << "f", "o", "r", " ", "t", "h", "e", " ", "f", "i", "s", "c", "a", "l",
      " ", "y", "e", "a", "r", " ", "e", "n", "d", "e", "d" >> }

\* buildQueryTerms without the fall-back to the unfiltered tokens.
buildQueryTermsFilteredOnly(query) ==
  LET rawTokens == tokenize(query)
      NotStop(token) == Str(token) \notin QUERY_STOPWORDS
  IN uniqueTokens(SelectSeq(rawTokens, NotStop))

\* buildQueryTerms
buildQueryTerms(query) ==
  LET rawTokens == tokenize(query)
      NotStop(token) == Str(token) \notin QUERY_STOPWORDS
      filtered == SelectSeq(rawTokens, NotStop)
      terms == IF Len(filtered) > 0 THEN filtered ELSE rawTokens
  IN uniqueTokens(terms)

\* buildQueryBigrams
buildQueryBigrams(queryTerms) ==
  uniqueTokens([idx \in 1..(Len(queryTerms) - 1) |->
                  queryTerms[idx] \o <<" ">> \o queryTerms[idx + 1]])

\* countTermHits
countTermHits(queryTerms, termFrequency) ==
  Cardinality({i \in 1..Len(queryTerms) : Tf(termFrequency, queryTerms[i]) > 0})

\* countBigramHits
countBigramHits(chunkText, queryBigrams) ==
  IF Len(queryBigrams) = 0 THEN 0
  ELSE LET text == toLowerCase(chunkText)
       IN Cardinality({i \in 1..Len(queryBigrams) : Includes(text, queryBigrams[i])})

BoilerplateMaxLine == 140

\* looksLikeCoverBoilerplate
looksLikeCoverBoilerplate(chunk) ==
  IF chunk.lineStart > BoilerplateMaxLine THEN FALSE
  ELSE \E pattern \in COVER_BOILERPLATE_PATTERNS :
         Includes(toLowerCase(chunk.text), pattern)

\* Math.log(n) in thousandths, for n = 1..40.
LnMilli ==
  << 0, 693, 1099, 1386, 1609, 1792, 1946, 2079, 2197, 2303, 2398, 2485,
     2565, 2639, 2708, 2773, 2833, 2890, 2944, 2996, 3045, 3091, 3135,
     3178, 3219, 3258, 3296, 3332, 3367, 3401, 3434, 3466, 3497, 3526,
     3555, 3584, 3611, 3638, 3664, 3689 >>

\* A term score that leaves the term frequency out of its numerator.
TermScoreWithoutTf(tf, df, tokenCount, totalChunkCount, totalTokens) ==
  LET idf == LnMilli[2 * totalChunkCount + 2] - LnMilli[2 * df + 1]
  IN IF totalTokens > 0
       THEN (idf * 22 * totalTokens)
              \div (10 * tf * totalTokens + 3 * totalTokens
                      + 9 * tokenCount * totalChunkCount)
       ELSE (idf * 22) \div (10 * tf + 12)

\* One term's BM25 contribution in thousandths, k1 = 1.2 and b = 0.75:
\*   idf = ln(1 + (N - df + 0.5) / (df + 0.5)) = ln((2N + 2) / (2 df + 1))
\*   normalizedLength = tokenCount / (totalTokens / N), or 1 when the average is 0
\*   termScore = idf * tf * 2.2 / (tf + 1.2 * (0.25 + 0.75 * normalizedLength))
\* with numerator and denominator multiplied by 10 * totalTokens.
TermScore(tf, df, tokenCount, totalChunkCount, totalTokens) ==
  LET idf == LnMilli[2 * totalChunkCount + 2] - LnMilli[2 * df + 1]
  IN IF totalTokens > 0
       THEN (idf * 22 * tf * totalTokens)
              \div (10 * tf * totalTokens + 3 * totalTokens
                      + 9 * tokenCount * totalChunkCount)
       ELSE (idf * 22 * tf) \div (10 * tf + 12)

\* bm25Score: the reduce over queryTerms.
RECURSIVE bm25Score(_, _, _, _, _)
bm25Score(queryTerms, chunk, docFrequencyByTerm, totalChunkCount, totalTokens) ==
  IF queryTerms = <<>> THEN 0
  ELSE LET term == queryTerms[Len(queryTerms)]
           score == bm25Score(SubSeq(queryTerms, 1, Len(queryTerms) - 1), chunk,
                              docFrequencyByTerm, totalChunkCount, totalTokens)
           tf == Tf(chunk.termFrequency, term)
       IN IF tf = 0 THEN score
          ELSE score + TermScore(tf, docFrequencyByTerm[term], chunk.tokenCount,
                                 totalChunkCount, totalTokens)

HardFilterMinTerms == 3

HardFilterMinHits == 2

ScoreUnit == 100 * 25 * 20

\* adjustedChunkScore without the hard filter of line 480.
adjustedChunkScoreUnfiltered(chunk, baseScore, queryTerms, queryBigrams) ==
  LET termHits == countTermHits(queryTerms, chunk.termFrequency)
      n == Max(1, Len(queryTerms))
      bigramHits == countBigramHits(chunk.text, queryBigrams)
      coverage == IF termHits >= n THEN 125
                  ELSE IF 10 * termHits >= 7 * n THEN 115
                  ELSE IF 2 * termHits >= n THEN 108
                  ELSE IF Len(queryTerms) >= HardFilterMinTerms /\ 4 * termHits <= n
                    THEN 80
                  ELSE 100
      bigram == IF bigramHits > 0 THEN 25 + 2 * Min(3, bigramHits) ELSE 25
      boilerplate == IF looksLikeCoverBoilerplate(chunk) THEN 9 ELSE 20
  IN IF baseScore <= 0 THEN 0
     ELSE baseScore * coverage * bigram * boilerplate

\* adjustedChunkScore.  coverage: 1.25, 1.15, 1.08, 0.8 or 1 (hundredths);
\* bigram: 1 + min(0.24, hits * 0.08) (twenty-fifths); boilerplate: 0.45 or 1
\* (twentieths).
adjustedChunkScore(chunk, baseScore, queryTerms, queryBigrams) ==
  LET termHits == countTermHits(queryTerms, chunk.termFrequency)
      n == Max(1, Len(queryTerms))
      bigramHits == countBigramHits(chunk.text, queryBigrams)
      coverage == IF termHits >= n THEN 125
                  ELSE IF 10 * termHits >= 7 * n THEN 115
                  ELSE IF 2 * termHits >= n THEN 108
                  ELSE IF Len(queryTerms) >= HardFilterMinTerms /\ 4 * termHits <= n
                    THEN 80
                  ELSE 100
      bigram == IF bigramHits > 0 THEN 25 + 2 * Min(3, bigramHits) ELSE 25
      boilerplate == IF looksLikeCoverBoilerplate(chunk) THEN 9 ELSE 20
  IN IF baseScore <= 0 THEN 0
     ELSE IF Len(queryTerms) >= HardFilterMinTerms /\ termHits < HardFilterMinHits
       THEN 0
     ELSE baseScore * coverage * bigram * boilerplate

\* compactWhitespace: /[ \t]+/g -> ' ', /\n{3,}/g -> '\n\n', trim.
RECURSIVE SqueezeBlanks(_)
SqueezeBlanks(text) ==
  IF text = <<>> THEN <<>>
  ELSE IF Head(text) \in {" ", "\t"}
    THEN IF Len(text) > 1 /\ text[2] \in {" ", "\t"}
           THEN SqueezeBlanks(Tail(text))
           ELSE <<" ">> \o SqueezeBlanks(Tail(text))
  ELSE <<Head(text)>> \o SqueezeBlanks(Tail(text))

RECURSIVE SqueezeNewlines(_)
SqueezeNewlines(text) ==
  IF text = <<>> THEN <<>>
  ELSE IF Len(text) >= 3 /\ text[1] = "\n" /\ text[2] = "\n" /\ text[3] = "\n"
    THEN SqueezeNewlines(Tail(text))
  ELSE <<Head(text)>> \o SqueezeNewlines(Tail(text))

compactWhitespace(value) == Trim(SqueezeNewlines(SqueezeBlanks(value)))

\* String.prototype.trimEnd
TrimEnd(text) ==
  LET solid == {i \in 1..Len(text) : ~IsSpace(text[i])}
  IN IF solid = {} THEN <<>>
     ELSE SubSeq(text, 1, CHOOSE i \in solid : \A j \in solid : i >= j)

ExcerptMaxChars == 1200

\* trimExcerpt
trimExcerpt(value, maxChars) ==
  IF Len(value) <= maxChars THEN value
  ELSE TrimEnd(SubSeq(value, 1, Max(0, maxChars - 3))) \o <<".", ".", ".">>

NoSearch ==
  [query |-> <<>>, hasTerms |-> FALSE, query_terms |-> <<>>, docs |-> <<>>,
   chunk_count |-> 0, result_count |-> 0, results |-> <<>>]

\* A validation that leaves the chunking parameters unchecked.
SearchValidationQueryOnly(query, chunkLines, chunkOverlap) ==
  IF Len(Trim(query)) = 0
    THEN Err("VALIDATION_ERROR", "Query must not be empty")
    ELSE NoErr

\* The checks runLexicalSearch makes before it reads any document.
SearchValidation(query, chunkLines, chunkOverlap) ==
  IF Len(Trim(query)) = 0
    THEN Err("VALIDATION_ERROR", "Query must not be empty")
  ELSE IF chunkOverlap >= chunkLines
    THEN Err("VALIDATION_ERROR", "--chunk-overlap must be less than --chunk-lines")
  ELSE NoErr

\* docs.flatMap((doc) => doc.chunks); a doc is [path, content].
RECURSIVE AllChunks(_, _, _)
AllChunks(docs, chunkLines, chunkOverlap) ==
  IF docs = <<>> THEN <<>>
  ELSE chunkDocument(docs[1].path, docs[1].content, chunkLines, chunkOverlap)
       \o AllChunks(Tail(docs), chunkLines, chunkOverlap)

\* docFrequencyByTerm
DocFrequency(queryTerms, allChunks) ==
  [term \in Range(queryTerms) |->
     Cardinality({i \in 1..Len(allChunks) : Tf(allChunks[i].termFrequency, term) > 0})]

\* The sum of the chunks' token counts (averageChunkLength times the count).
RECURSIVE TotalTokens(_)
TotalTokens(allChunks) ==
  IF allChunks = <<>> THEN 0
  ELSE allChunks[1].tokenCount + TotalTokens(Tail(allChunks))

\* A filter that lets a score of 0 through.
ScorePassesZero(score) == score >= 0

\* .filter((item) => item.score > 0)
ScorePasses(score) == score > 0

\* .sort((a, b) => b.score - a.score), stable.
InsertScored(sorted, x) ==
  LET later == {i \in 1..Len(sorted) : x.score - sorted[i].score > 0}
      at == IF later = {} THEN Len(sorted) + 1
            ELSE CHOOSE i \in later : \A j \in later : i <= j
  IN SubSeq(sorted, 1, at - 1) \o <<x>> \o SubSeq(sorted, at, Len(sorted))

RECURSIVE SortScored(_)
SortScored(items) ==
  IF items = <<>> THEN <<>>
  ELSE InsertScored(SortScored(SubSeq(items, 1, Len(items) - 1)), items[Len(items)])

\* The chunks with their adjusted scores, in discovery order (the .map).
ScoredChunks(allChunks, queryTerms) ==
  LET queryBigrams == buildQueryBigrams(queryTerms)
      docFrequencyByTerm == DocFrequency(queryTerms, allChunks)
      totalTokens == TotalTokens(allChunks)
  IN [i \in 1..Len(allChunks) |->
        [chunk |-> allChunks[i],
         score |-> adjustedChunkScore(
                     allChunks[i],
                     bm25Score(queryTerms, allChunks[i], docFrequencyByTerm,
                               Len(allChunks), totalTokens),
                     queryTerms, queryBigrams)]]

\* .filter(...).sort(...).slice(0, topK)
RankScored(scoredChunks, topK) ==
  LET Passes(item) == ScorePasses(item.score)
  IN Take(SortScored(SelectSeq(scoredChunks, Passes)), topK)

\* Number(score.toFixed(6)) at the model's precision: the nearest thousandth.
ScoreRounded(score) == (2 * score + ScoreUnit) \div (2 * ScoreUnit)

\* runLexicalSearch once the parameters have passed SearchValidation and all
\* documents have been read: [err, data].
\* Variants of runLexicalSearch: the data of a ranked answer, a search that
\* never checks the query terms, and one that checks them before it looks at
\* the chunk set.
RankedData(query, docs, allChunks, queryTerms, topK) ==
  LET scored == RankScored(ScoredChunks(allChunks, queryTerms), topK)
  IN [query |-> query, hasTerms |-> TRUE,
      query_terms |-> [i \in 1..Len(queryTerms) |-> Str(queryTerms[i])],
      docs |-> [i \in 1..Len(docs) |->
                  [path |-> docs[i].path, bytes |-> Len(docs[i].content),
                   line_count |-> Len(SplitLines(docs[i].content))]],
      chunk_count |-> Len(allChunks),
      result_count |-> Len(scored),
      results |->
        [idx \in 1..Len(scored) |->
           [rank |-> idx,
            score |-> ScoreRounded(scored[idx].score),
            path |-> scored[idx].chunk.docPath,
            accession |-> scored[idx].chunk.accession,
            line_start |-> scored[idx].chunk.lineStart,
            line_end |-> scored[idx].chunk.lineEnd,
            excerpt |-> trimExcerpt(compactWhitespace(scored[idx].chunk.text),
                                    ExcerptMaxChars)]]]

runLexicalSearchUnchecked(rawQuery, docs, topK, chunkLines, chunkOverlap) ==
  LET query == Trim(rawQuery)
      allChunks == AllChunks(docs, chunkLines, chunkOverlap)
      queryTerms == buildQueryTerms(query)
      ranked == RankedData(query, docs, allChunks, queryTerms, topK)
  IN IF Len(allChunks) = 0
       THEN [err |-> NoErr,
             data |-> [NoSearch EXCEPT !.query = query, !.docs = ranked.docs]]
     ELSE IF Len(queryTerms) = 0
       THEN [err |-> NoErr,
             data |-> [NoSearch EXCEPT !.query = query, !.docs = ranked.docs,
                                       !.chunk_count = Len(allChunks)]]
     ELSE [err |-> NoErr, data |-> ranked]

runLexicalSearchTermsFirst(rawQuery, docs, topK, chunkLines, chunkOverlap) ==
  LET query == Trim(rawQuery)
      allChunks == AllChunks(docs, chunkLines, chunkOverlap)
      queryTerms == buildQueryTerms(query)
      ranked == RankedData(query, docs, allChunks, queryTerms, topK)
  IN IF Len(queryTerms) = 0
       THEN [err |-> Err("VALIDATION_ERROR",
                         "Query must contain at least one alphanumeric token"),
             data |-> NoSearch]
     ELSE IF Len(allChunks) = 0
       THEN [err |-> NoErr,
             data |-> [NoSearch EXCEPT !.query = query, !.docs = ranked.docs]]
     ELSE [err |-> NoErr, data |-> ranked]

runLexicalSearch(rawQuery, docs, topK, chunkLines, chunkOverlap) ==
  LET query == Trim(rawQuery)
      allChunks == AllChunks(docs, chunkLines, chunkOverlap)
      docInfo == [i \in 1..Len(docs) |->
                    [path |-> docs[i].path, bytes |-> Len(docs[i].content),
                     line_count |-> Len(SplitLines(docs[i].content))]]
      queryTerms == buildQueryTerms(query)
      scored == RankScored(ScoredChunks(allChunks, queryTerms), topK)
  IN IF Len(allChunks) = 0
       THEN [err |-> NoErr,
             data |-> [NoSearch EXCEPT !.query = query, !.docs = docInfo]]
     ELSE IF Len(queryTerms) = 0
       THEN [err |-> Err("VALIDATION_ERROR",
                         "Query must contain at least one alphanumeric token"),
             data |-> NoSearch]
     ELSE [err |-> NoErr,
           data |-> [query |-> query, hasTerms |-> TRUE,
                     query_terms |-> [i \in 1..Len(queryTerms) |-> Str(queryTerms[i])],
                     docs |-> docInfo,
                     chunk_count |-> Len(allChunks),
                     result_count |-> Len(scored),
                     results |->
                       [idx \in 1..Len(scored) |->
                          [rank |-> idx,
                           score |-> ScoreRounded(scored[idx].score),
                           path |-> scored[idx].chunk.docPath,
                           accession |-> scored[idx].chunk.accession,
                           line_start |-> scored[idx].chunk.lineStart,
                           line_end |-> scored[idx].chunk.lineEnd,
                           excerpt |-> trimExcerpt(
                                         compactWhitespace(scored[idx].chunk.text),
                                         ExcerptMaxChars)]]]]

-----------------------------------------------------------------------------
(* Command handlers.  loc[p] holds the locals of the handler process p is   *)
(* running; pc is the await it is suspended at.                            *)

NoReport ==
  [present |-> FALSE, id |-> "", cik |-> "", profile |-> "", cache_root |-> "",
   manifest_path |-> "", docs_count |-> 0, fetched_count |-> 0, reused_count |-> 0,
   skipped_count |-> 0, skipped |-> <<>>, docs |-> <<>>]

NoSyncData ==
  [present |-> FALSE, fetched_count |-> 0, reused_count |-> 0, docs_count |-> 0,
   skipped_count |-> 0]

NoKey == [root |-> "", cik |-> "", profile |-> ""]

NoAskIn == [query |-> <<>>, topK |-> 0, chunkLines |-> 0, chunkOverlap |-> 0]

NoAnswer ==
  [present |-> FALSE, search |-> NoSearch, corpus_docs_count |-> 0,
   sync |-> NoSyncData]

\* The ranking parameters `research ask` is run with: a usable query, a
\* blank query, and an overlap that is not below the window size.
QueryResigned ==
  << "W", "h", "o", " ", "r", "e", "s", "i", "g", "n", "e", "d", " ", "f",
     "r", "o", "m", " ", "t", "h", "e", " ", "b", "o", "a", "r", "d", "?" >>

QueryBlank == << " " >>

AskInputs ==
  {[query |-> QueryResigned, topK |-> 3, chunkLines |-> 2, chunkOverlap |-> 1],
   [query |-> QueryBlank, topK |-> 3, chunkLines |-> 2, chunkOverlap |-> 1],
   [query |-> QueryResigned, topK |-> 3, chunkLines |-> 1, chunkOverlap |-> 1]}

NoFile == [exists |-> FALSE, raw |-> Garbage]

IdleLoc ==
  [op |-> "none", pc |-> "idle", id |-> "", profile |-> "", refresh |-> FALSE,
   root |-> "", entity |-> NoEntity, ruleIdx |-> 0, selected |-> <<>>,
   rowIdx |-> 0, docs |-> <<>>, skipped |-> <<>>, fetchedCount |-> 0,
   reusedCount |-> 0, report |-> NoReport, err |-> NoErr,
   manifest |-> NoRead, syncData |-> NoSyncData, askIn |-> NoAskIn,
   answer |-> NoAnswer,
   \* history, for stating properties
   failedAt |-> "", startFiles |-> {}, startManifest |-> NoFile,
   prevSame |-> FALSE, readFile |-> NoFile, firstRead |-> "none",
   secondRead |-> "none"]

Upd(p, l) == loc' = [loc EXCEPT ![p] = l]

Failed(l, e) == [l EXCEPT !.pc = "failed", !.err = e, !.failedAt = l.pc]

SyncKey(l) == [root |-> l.root, cik |-> l.entity.cik, profile |-> l.profile]

FileAt(disk, path) ==
  IF path \in DOMAIN disk THEN [exists |-> TRUE, raw |-> disk[path]] ELSE NoFile

\* pc after the row at rowIdx has been dealt with.
AfterRow(l) == IF l.rowIdx + 1 > Len(l.selected) THEN "write" ELSE "rowcheck"

\* A failure inside runResearchSync: the error propagates to the caller.
SyncFail(p, e) ==
  /\ Upd(p, Failed(loc[p], e))
  /\ lastOk' = NoKey

\* `research sync` is invoked.
InvokeSync(p, id, profile, root, refresh) ==
  /\ p \in active
  /\ loc[p].pc = "idle"
  /\ Upd(p, [IdleLoc EXCEPT !.op = "sync", !.pc = "resolve", !.id = id,
                            !.profile = profile, !.root = root,
                            !.refresh = refresh])
  /\ UNCHANGED <<call, ret, calls, search, http, cli, catalog, gone, files, manifests, active, lastOk>>

\* runResearchSync, lines 653-657: resolveEntity, resolveCacheRoot.
SyncResolve(p) ==
  LET l == loc[p]
      entity == resolveEntity(l.id)
  IN /\ l.pc = "resolve"
     /\ \/ /\ entity.ok
           /\ LET m == [l EXCEPT !.entity = entity]
              IN Upd(p, [m EXCEPT
                   !.pc = "rules", !.ruleIdx = 1, !.selected = <<>>,
                   !.docs = <<>>, !.skipped = <<>>,
                   !.fetchedCount = 0, !.reusedCount = 0,
                   !.startFiles = DOMAIN files,
                   !.startManifest =
                      FileAt(manifests,
                             profileManifestPath(l.root, entity.cik, l.profile)),
                   !.prevSame = (lastOk = SyncKey(m))])
           /\ UNCHANGED lastOk
        \/ /\ ~entity.ok
           /\ SyncFail(p, Err("NOT_FOUND", "No SEC ticker-map record found"))
        \/ SyncFail(p, Err("NETWORK_ERROR", "ticker map request failed"))
     /\ UNCHANGED <<call, ret, calls, search, http, cli, catalog, gone, files, manifests, active>>

\* One iteration of the rule loop, lines 659-676; after the last rule the
\* selection is sorted, lines 678-680.
SyncRule(p) ==
  LET l == loc[p]
      rules == PROFILE_RULES[l.profile]
  IN /\ l.pc = "rules"
     /\ \/ LET rows == RuleRows(catalog, rules[l.ruleIdx])
               merged == MergeRows(l.selected, rows)
               last == l.ruleIdx = Len(rules)
               selectedRows == IF last THEN SortRows(merged) ELSE merged
           IN /\ Upd(p, [l EXCEPT
                     !.selected = selectedRows,
                     !.ruleIdx = l.ruleIdx + 1,
                     !.rowIdx = IF last THEN 1 ELSE 0,
                     !.pc = IF ~last THEN "rules"
                            ELSE IF selectedRows = <<>> THEN "write"
                            ELSE "rowcheck"])
              /\ UNCHANGED lastOk
        \/ \E code \in {"NETWORK_ERROR", "NOT_FOUND"} :
             SyncFail(p, Err(code, "submissions request failed"))
     /\ UNCHANGED <<call, ret, calls, search, http, cli, catalog, gone, files, manifests, active>>

\* The cache check with the refresh flag read the wrong way round.
shouldUseCacheInverted(refresh, exists) == refresh /\ exists

\* Line 689: !refresh && (await fileExists(docPath)).
\* A cache check that forgets the refresh flag.
shouldUseCacheIgnoringRefresh(refresh, exists) == exists

shouldUseCache(refresh, exists) == ~refresh /\ exists

\* Lines 687-691 and 722-733: the cache check of one selected row.
SyncRowCheck(p) ==
  LET l == loc[p]
      row == l.selected[l.rowIdx]
      docPath == filingDocPath(l.root, l.entity.cik, row.accession)
      useCache == shouldUseCache(l.refresh, docPath \in DOMAIN files)
  IN /\ l.pc = "rowcheck"
     /\ \/ /\ useCache
           /\ Upd(p, [l EXCEPT !.reusedCount = l.reusedCount + 1,
                               !.docs = Append(l.docs, CachedDoc(row, docPath)),
                               !.rowIdx = l.rowIdx + 1,
                               !.pc = AfterRow(l)])
           /\ UNCHANGED lastOk
        \/ /\ ~useCache
           /\ Upd(p, [l EXCEPT !.pc = "fetch"])
           /\ UNCHANGED lastOk
        \/ /\ ~l.refresh
           /\ SyncFail(p, Err("VALIDATION_ERROR", "Unable to stat"))
     /\ UNCHANGED <<call, ret, calls, search, http, cli, catalog, gone, files, manifests, active>>

\* runFilingsGet for a row: TRUE iff it throws NOT_FOUND (no primary
\* document in the row, or the document URL answers 404).
FetchNotFound(row, missing) == row.filingUrl = Null \/ row.accession \in missing

\* A catch that lets NOT_FOUND abort the sync like every other error.
SkippedAborts(l, row) == Failed(l, Err("NOT_FOUND", "filing request failed"))

\* A catch that records the filing that was not found as a document too.
SkippedWithDescriptor(l, row) ==
  [l EXCEPT !.skipped = Append(l.skipped,
                               [accession |-> row.accession,
                                reason |-> "not found"]),
            !.docs = Append(l.docs,
                            CachedDoc(row, filingDocPath(l.root, l.entity.cik,
                                                         row.accession))),
            !.rowIdx = l.rowIdx + 1,
            !.pc = AfterRow(l)]

\* Lines 714-718: the catch of a NOT_FOUND fetch records the row as skipped
\* and continues with the next row.
Skipped(l, row) ==
  [l EXCEPT !.skipped = Append(l.skipped,
                               [accession |-> row.accession,
                                reason |-> "not found"]),
            !.rowIdx = l.rowIdx + 1,
            !.pc = AfterRow(l)]

\* Lines 692-733: fetch, write the cached document, or skip.
SyncRowFetch(p) ==
  LET l == loc[p]
      row == l.selected[l.rowIdx]
      docPath == filingDocPath(l.root, l.entity.cik, row.accession)
      content == WithFinalNewline(RemoteMarkdown(row.accession))
  IN /\ l.pc = "fetch"
     /\ \/ /\ FetchNotFound(row, gone)
           /\ Upd(p, Skipped(l, row))
           /\ UNCHANGED <<files, lastOk>>
        \/ /\ ~FetchNotFound(row, gone)
           /\ files' = PutFile(files, docPath, content)
           /\ Upd(p, [l EXCEPT !.fetchedCount = l.fetchedCount + 1,
                               !.docs = Append(l.docs, CachedDoc(row, docPath)),
                               !.rowIdx = l.rowIdx + 1,
                               !.pc = AfterRow(l)])
           /\ UNCHANGED lastOk
        \/ /\ ~FetchNotFound(row, gone)
           /\ \E code \in {"NETWORK_ERROR", "PARSE_ERROR"} :
                SyncFail(p, Err(code, "filing request failed"))
           /\ UNCHANGED files
        \/ /\ ~FetchNotFound(row, gone)
           /\ SyncFail(p, Err("ERRNO", "writeFile failed"))
           /\ \/ UNCHANGED files
              \/ files' = PutFile(files, docPath, Truncated(content))
     /\ UNCHANGED <<call, ret, calls, search, http, cli, catalog, gone, manifests, active>>

\* The manifest object of lines 736-745.
BuildManifest(l) ==
  [version |-> ManifestVersion, id_input |-> l.id, cik |-> l.entity.cik,
   ticker |-> l.entity.ticker, title |-> l.entity.title, profile |-> l.profile,
   synced_at |-> nowIso, docs |-> l.docs]

\* A report whose docs_count counts every selected row, skipped ones included.
SyncReportCountingSelection(l) ==
  [present |-> TRUE, id |-> l.id, cik |-> l.entity.cik, profile |-> l.profile,
   cache_root |-> l.root,
   manifest_path |-> profileManifestPath(l.root, l.entity.cik, l.profile),
   docs_count |-> Len(l.selected), fetched_count |-> l.fetchedCount,
   reused_count |-> l.reusedCount, skipped_count |-> Len(l.skipped),
   skipped |-> l.skipped, docs |-> l.docs]

\* The data returned at lines 749-765.
SyncReport(l) ==
  [present |-> TRUE, id |-> l.id, cik |-> l.entity.cik, profile |-> l.profile,
   cache_root |-> l.root,
   manifest_path |-> profileManifestPath(l.root, l.entity.cik, l.profile),
   docs_count |-> Len(l.docs), fetched_count |-> l.fetchedCount,
   reused_count |-> l.reusedCount, skipped_count |-> Len(l.skipped),
   skipped |-> l.skipped, docs |-> l.docs]

\* Lines 736-765: persist the manifest and return the report.  A failing
\* writeFile leaves the old file, or the new text cut short.
SyncWrite(p) ==
  LET l == loc[p]
      manifestPath == profileManifestPath(l.root, l.entity.cik, l.profile)
  IN /\ l.pc = "write"
     /\ \/ /\ manifests' = writeCachedManifest(manifests, l.root, BuildManifest(l))
           /\ Upd(p, [l EXCEPT !.pc = "synced", !.report = SyncReport(l)])
           /\ lastOk' = SyncKey(l)
        \/ /\ SyncFail(p, Err("ERRNO", "manifest write failed"))
           /\ \/ UNCHANGED manifests
              \/ manifests' = PutFile(manifests, manifestPath, Garbage)
     /\ UNCHANGED <<call, ret, calls, search, http, cli, catalog, gone, files, active>>

\* A failure of runResearchAskById outside its sync.
AskFail(p, e) ==
  /\ Upd(p, Failed(loc[p], e))
  /\ UNCHANGED lastOk

\* A test for a missing manifest that forgets the empty document list.
IsEmptyReadAbsentOnly(read) == read.status = "absent"

\* A test that takes every manifest for empty: the ask always syncs.
IsEmptyReadAlways(read) == TRUE

\* manifest.docs.length === 0 on a manifest that was read
IsEmptyRead(read) == read.status = "absent" \/ Len(read.manifest.docs) = 0

ReadKind(read) ==
  IF read.status # "ok" THEN read.status
  ELSE IF Len(read.manifest.docs) = 0 THEN "empty" ELSE "ok"

\* `research ask --id` is invoked: runResearchAskById, lines 811-825, up to
\* the decision whether to sync.
AskBegin(p, id, profile, root, refresh, askIn) ==
  LET entity == resolveEntity(id)
      l == [IdleLoc EXCEPT !.op = "ask", !.id = id, !.profile = profile,
                           !.root = root, !.refresh = refresh,
                           !.entity = entity, !.askIn = askIn,
                           !.readFile =
                              IF entity.ok /\ ~refresh
                                THEN FileAt(manifests,
                                            profileManifestPath(root, entity.cik,
                                                                profile))
                                ELSE NoFile]
  IN /\ p \in active
     /\ loc[p].pc = "idle"
     /\ \/ /\ ~entity.ok
           /\ Upd(p, Failed(l, Err("NOT_FOUND", "No SEC ticker-map record found")))
           /\ UNCHANGED lastOk
        \/ /\ Upd(p, Failed(l, Err("NETWORK_ERROR", "ticker map request failed")))
           /\ UNCHANGED lastOk
        \/ /\ entity.ok
           /\ l.refresh
           /\ Upd(p, [l EXCEPT !.manifest = NoRead, !.firstRead = "skipped",
                               !.pc = "resolve"])
           /\ UNCHANGED lastOk
        \/ /\ entity.ok
           /\ ~l.refresh
           /\ \E read \in {readCachedManifest(manifests, root, entity.cik, profile),
                           ReadFailure} :
                IF read.status = "error"
                  THEN Upd(p, Failed([l EXCEPT !.firstRead = "error"], read.err))
                  ELSE Upd(p, [l EXCEPT !.manifest = read,
                                        !.firstRead = ReadKind(read),
                                        !.pc = IF IsEmptyRead(read) THEN "resolve"
                                               ELSE "rank"])
           /\ UNCHANGED lastOk
     /\ UNCHANGED <<call, ret, calls, search, http, cli, catalog, gone, files, manifests, active>>

\* Lines 836-853: the sync has returned; keep its counts, read the manifest
\* again and require documents.
AskReread(p) ==
  LET l == loc[p]
      syncData == [present |-> TRUE,
                   fetched_count |-> l.report.fetched_count,
                   reused_count |-> l.report.reused_count,
                   docs_count |-> l.report.docs_count,
                   skipped_count |-> l.report.skipped_count]
  IN /\ l.op = "ask"
     /\ l.pc = "synced"
     /\ \E read \in {readCachedManifest(manifests, l.root, l.entity.cik, l.profile),
                     ReadFailure} :
          LET m == [l EXCEPT !.syncData = syncData, !.manifest = read,
                             !.secondRead = ReadKind(read)]
          IN IF read.status = "error" THEN Upd(p, Failed(m, read.err))
             ELSE IF IsEmptyRead(read)
               THEN Upd(p, Failed(m, [code |-> "DOCS_REQUIRED",
                                      msg |-> "No cached documents found",
                                      id |-> l.id, profile |-> l.profile]))
             ELSE Upd(p, [m EXCEPT !.pc = "rank"])
     /\ UNCHANGED <<call, ret, calls, search, http, cli, catalog, gone, files, manifests, active, lastOk>>

\* ensureReadableTextFile on a cached path: the error, or NoErr.
ReadableError(disk, filePath) ==
  IF filePath \notin DOMAIN disk
    THEN Err("NOT_FOUND", "Document not found")
    ELSE NoErr

\* Lines 855-883: rank the manifest's documents and build the answer.
AskRank(p) ==
  LET l == loc[p]
      in == l.askIn
      docPaths == [i \in 1..Len(l.manifest.manifest.docs) |->
                     l.manifest.manifest.docs[i].path]
      invalid == SearchValidation(in.query, in.chunkLines, in.chunkOverlap)
      unreadable == {i \in 1..Len(docPaths) :
                       ReadableError(files, docPaths[i]).code # ""}
      docs == [i \in 1..Len(docPaths) |->
                 [path |-> docPaths[i], content |-> files[docPaths[i]]]]
      searched == runLexicalSearch(in.query, docs, in.topK, in.chunkLines,
                                   in.chunkOverlap)
      count == Len(l.manifest.manifest.docs)
  IN /\ l.pc = "rank"
     /\ IF invalid.code # "" THEN Upd(p, Failed(l, invalid))
        ELSE IF unreadable # {}
          THEN \E i \in unreadable :
                 Upd(p, Failed(l, ReadableError(files, docPaths[i])))
        ELSE \/ Upd(p, Failed(l, Err("VALIDATION_ERROR", "Unable to read document")))
             \/ IF searched.err.code # "" THEN Upd(p, Failed(l, searched.err))
                ELSE Upd(p, [l EXCEPT
                       !.pc = "done",
                       !.answer =
                          [present |-> TRUE, search |-> searched.data,
                           corpus_docs_count |-> count,
                           sync |-> IF l.syncData.present THEN l.syncData
                                    ELSE [present |-> TRUE, fetched_count |-> 0,
                                          reused_count |-> count,
                                          docs_count |-> count,
                                          skipped_count |-> 0]]])
     /\ UNCHANGED <<call, ret, calls, search, http, cli, catalog, gone, files, manifests, active, lastOk>>

\* The command is over: the process is free again.
Complete(p) ==
  LET l == loc[p]
  IN /\ \/ l.pc \in {"done", "failed"}
        \/ l.pc = "synced" /\ l.op = "sync"
     /\ Upd(p, IdleLoc)
     /\ UNCHANGED <<call, ret, calls, search, http, cli, catalog, gone, files, manifests, active, lastOk>>

-----------------------------------------------------------------------------
(* Specification of the single-writer cache *)

NoFiles == [q \in {} |-> <<>>]

NoManifests == [q \in {} |-> Garbage]

NoCall == [fn |-> "none"]

NoSearchCall == [pc |-> "none"]

NoRequest == [pc |-> "none"]

NoInvocation == [pc |-> "none"]

NoRet == [fn |-> "none"]

Init ==
  /\ \E remote \in Remotes : catalog = remote.catalog /\ gone = remote.gone
  /\ call = NoCall
  /\ ret = NoRet
  /\ calls = 0
  /\ search = NoSearchCall
  /\ http = NoRequest
  /\ cli = NoInvocation
  /\ files = NoFiles
  /\ manifests = NoManifests
  /\ loc = [p \in Procs |-> IdleLoc]
  /\ active = {"p1"}
  /\ lastOk = NoKey

Next ==
  \E p \in Procs :
    \/ \E id \in Ids, profile \in Profiles, root \in CacheRoots, refresh \in BOOLEAN :
         InvokeSync(p, id, profile, root, refresh)
    \/ SyncResolve(p)
    \/ SyncRule(p)
    \/ SyncRowCheck(p)
    \/ SyncRowFetch(p)
    \/ SyncWrite(p)
    \/ \E id \in Ids, profile \in Profiles, root \in CacheRoots, refresh \in BOOLEAN,
          askIn \in AskInputs :
         AskBegin(p, id, profile, root, refresh, askIn)
    \/ AskReread(p)
    \/ AskRank(p)
    \/ Complete(p)

Spec == Init /\ [][Next]_vars

-----------------------------------------------------------------------------
(* Properties of runResearchSync and runResearchAskById under Spec *)

SyncPcs == {"rules", "rowcheck", "fetch", "write", "synced"}

DocPathOf(l, row) == filingDocPath(l.root, l.entity.cik, row.accession)

AllCachedAtStart(l) ==
  \A i \in 1..Len(l.selected) : DocPathOf(l, l.selected[i]) \in l.startFiles

\* C1: a sync with refresh=false whose selected filings all had their cached
\* file when it started, or that follows a successful sync of the same
\* (cache root, entity, profile), returns fetched_count = 0 and
\* reused_count = docs_count, and adds no file to the cache.
C1_IdempotentSync ==
  \A p \in Procs :
    LET l == loc[p]
    IN (l.pc = "synced" /\ ~l.refresh /\ (AllCachedAtStart(l) \/ l.prevSame))
         => /\ l.report.fetched_count = 0
            /\ l.report.reused_count = l.report.docs_count
            /\ DOMAIN files = l.startFiles

\* A second sync of the same key, refresh off, has returned a report with
\* documents, all of them reused.
C1_Witness ==
  \E p \in Procs :
    /\ loc[p].pc = "synced"
    /\ loc[p].op = "sync"
    /\ ~loc[p].refresh
    /\ loc[p].prevSame
    /\ AllCachedAtStart(loc[p])
    /\ loc[p].report.docs_count >= 2
    /\ loc[p].report.reused_count = loc[p].report.docs_count

PersistedDocs(raw) == IF raw.kind = "json" THEN raw.value.docs ELSE <<>>

\* C2: with a single writer, every descriptor of a manifest on disk, and
\* every descriptor a running sync has collected, has a path at which a
\* cached document file exists.
C2_DescriptorsHaveFiles ==
  /\ \A mp \in DOMAIN manifests :
       \A i \in 1..Len(PersistedDocs(manifests[mp])) :
         PersistedDocs(manifests[mp])[i].path \in DOMAIN files
  /\ \A p \in Procs :
       loc[p].pc \in SyncPcs =>
         \A i \in 1..Len(loc[p].docs) : loc[p].docs[i].path \in DOMAIN files

\* A manifest with a fetched descriptor is on disk after a sync that skipped
\* a filing.
C2_Witness ==
  \E p \in Procs :
    /\ loc[p].pc = "synced"
    /\ Len(loc[p].skipped) > 0
    /\ loc[p].report.manifest_path \in DOMAIN manifests
    /\ Len(PersistedDocs(manifests[loc[p].report.manifest_path])) > 0

\* C3: runResearchAskById ranks, after a first read that found the manifest
\* absent or empty, only once a sync has returned and the manifest was read
\* again with documents; a second read that finds it absent or empty fails
\* the call with DOCS_REQUIRED carrying the id and the profile, and nothing
\* is ranked.
C3_AskSyncsThenRereads ==
  \A p \in Procs :
    LET l == loc[p]
    IN l.op = "ask" =>
         /\ (l.firstRead \in {"absent", "empty"} /\ l.pc \in {"rank", "done"})
               => l.secondRead = "ok" /\ l.syncData.present
         /\ (l.firstRead \in {"absent", "empty"} /\ l.pc = "failed")
               => l.failedAt # "idle"
         /\ l.secondRead \in {"absent", "empty"}
               => /\ l.pc = "failed"
                  /\ l.err.code = "DOCS_REQUIRED"
                  /\ l.err.id = l.id
                  /\ l.err.profile = l.profile
                  /\ ~l.answer.present

\* An ask found no manifest, synced, read an empty manifest and failed.
C3_Witness ==
  \E p \in Procs :
    /\ loc[p].op = "ask"
    /\ loc[p].firstRead = "absent"
    /\ loc[p].secondRead = "empty"
    /\ loc[p].pc = "failed"
    /\ loc[p].err.code = "DOCS_REQUIRED"

HasAccession(docs, accession) ==
  \E i \in 1..Len(docs) : docs[i].accession = accession

\* Whatever a sync has skipped carries a reason and is in no descriptor it
\* collected, returned or persisted.
SkippedStayOut ==
  \A p \in Procs :
    LET l == loc[p]
    IN l.pc \in SyncPcs =>
         \A i \in 1..Len(l.skipped) :
           /\ l.skipped[i].reason # ""
           /\ ~HasAccession(l.docs, l.skipped[i].accession)
           /\ l.pc = "synced" =>
                /\ l.report.skipped = l.skipped
                /\ ~HasAccession(l.report.docs, l.skipped[i].accession)
                /\ ~HasAccession(PersistedDocs(manifests[l.report.manifest_path]),
                                 l.skipped[i].accession)

\* The step of a sync whose fetch answers NOT_FOUND: the filing is appended
\* to skipped, docs and the cache stay as they are, and the sync moves to the
\* next filing, or to the manifest write after the last one.
SkipContinues ==
  \A p \in Procs :
    LET l == loc[p]
    IN (/\ l.pc = "fetch"
        /\ loc'[p] # l
        /\ \/ l.selected[l.rowIdx].filingUrl = Null
           \/ l.selected[l.rowIdx].accession \in gone)
         => /\ loc'[p].pc = IF l.rowIdx = Len(l.selected) THEN "write" ELSE "rowcheck"
            /\ loc'[p].rowIdx = l.rowIdx + 1
            /\ Len(loc'[p].skipped) = Len(l.skipped) + 1
            /\ loc'[p].skipped[Len(l.skipped) + 1].accession =
                 l.selected[l.rowIdx].accession
            /\ loc'[p].docs = l.docs
            /\ files' = files

\* C4: a fetch that fails with NOT_FOUND puts the filing in skipped with a
\* reason and in neither docs nor the manifest, and the sync goes on to the
\* next filing and to the manifest write.
C4_NotFoundIsSkipped == []SkippedStayOut /\ [][SkipContinues]_vars

\* A sync that skipped a filing has written its manifest.
C4_Witness ==
  \E p \in Procs :
    /\ loc[p].pc = "synced"
    /\ loc[p].report.skipped_count > 0
    /\ loc[p].report.docs_count > 0
    /\ manifests[loc[p].report.manifest_path] =
         JsonStringify(BuildManifest(loc[p]))

ManifestFileOf(l) ==
  FileAt(manifests, profileManifestPath(l.root, l.entity.cik, l.profile))

\* C5, as stated: a sync that failed at any step after resolving the entity
\* has left the manifest that was persisted for its (entity, profile) when it
\* started exactly as it was.
C5_FailedSyncLeavesManifest ==
  \A p \in Procs :
    LET l == loc[p]
    IN (/\ l.pc = "failed"
        /\ l.failedAt \in {"rules", "rowcheck", "fetch", "write"}
        /\ l.startManifest.exists)
         => ManifestFileOf(l) = l.startManifest

\* C5, what holds: a sync that failed before the manifest write has left the
\* manifest file as it was, and one that failed in the manifest write has
\* left either the old file or text that is no JSON; no failed sync persists
\* a descriptor list.
C5_AbortBeforeWrite ==
  \A p \in Procs :
    LET l == loc[p]
    IN /\ (l.pc = "failed" /\ l.failedAt \in {"rules", "rowcheck", "fetch"})
            => ManifestFileOf(l) = l.startManifest
       /\ (l.pc = "failed" /\ l.failedAt = "write")
            => \/ ManifestFileOf(l) = l.startManifest
               \/ ManifestFileOf(l).raw.kind = "garbage"

\* A sync that had collected a descriptor failed on a later filing while a
\* manifest of an earlier sync was on disk.
C5_Witness ==
  \E p \in Procs :
    /\ loc[p].pc = "failed"
    /\ loc[p].failedAt = "fetch"
    /\ Len(loc[p].docs) > 0
    /\ loc[p].startManifest.exists
    /\ loc[p].startManifest.raw.kind = "json"

-----------------------------------------------------------------------------
(* A cache directory as one command finds it: a profile's manifest file    *)
(* holds what an earlier run, another version of the tool or an editor has  *)
(* left there.                                                             *)

DiskCik == "0000320193"

DiskDoc(acc) ==
  CachedDoc(Row(acc, "10-K", "2024-11-01", Url(acc)),
            filingDocPath("/cache", DiskCik, acc))

DiskManifest(profile, docs) ==
  JsonStringify([version |-> ManifestVersion, id_input |-> "AAPL", cik |-> DiskCik,
                 ticker |-> "AAPL", title |-> "Apple Inc.", profile |-> profile,
                 synced_at |-> "2025-01-01T00:00:00Z", docs |-> docs])

\* The manifest files found: unparsable text, JSON that is no object, valid
\* manifests (empty, current, with a descriptor of a filing no rule selects
\* any more), and JSON objects that differ from a valid manifest in one
\* property.
FoundManifests(profile) ==
  LET one == DiskManifest(profile, <<DiskDoc(A1)>>)
      none == DiskManifest(profile, <<>>)
  IN { Garbage,
       [kind |-> "json", value |-> NoJson],
       none,
       one,
       DiskManifest(profile, <<DiskDoc(A4), DiskDoc(A1)>>),
       [none EXCEPT !.value.version = 2],
       [one EXCEPT !.value.version = 2],
       [one EXCEPT !.value.cik = Undef],
       [none EXCEPT !.value.docsIsArray = FALSE],
       [one EXCEPT !.value.docs[1].path = Undef],
       [one EXCEPT !.value.docs[1].accession = Undef],
       [one EXCEPT !.value.docs[1].path = Null],
       [one EXCEPT !.value.docs[1].obj = FALSE] }

FoundFiles ==
  [q \in {filingDocPath("/cache", DiskCik, A1), filingDocPath("/cache", DiskCik, A4)} |->
     WithFinalNewline(MarkdownA1)]

InitDisk ==
  /\ \E remote \in Remotes : catalog = remote.catalog /\ gone = remote.gone
  /\ call = NoCall
  /\ ret = NoRet
  /\ calls = 0
  /\ search = NoSearchCall
  /\ http = NoRequest
  /\ cli = NoInvocation
  /\ files = FoundFiles
  /\ \/ manifests = NoManifests
     \/ \E profile \in Profiles :
          \E raw \in FoundManifests(profile) :
            manifests = PutFile(NoManifests,
                                profileManifestPath("/cache", DiskCik, profile), raw)
  /\ loc = [p \in Procs |-> IdleLoc]
  /\ active = {"p1"}
  /\ lastOk = NoKey

\* One command is run on the directory found.
NextDisk ==
  \E p \in Procs :
    \/ \E id \in Ids, profile \in Profiles, root \in CacheRoots, refresh \in BOOLEAN :
         InvokeSync(p, id, profile, root, refresh)
    \/ SyncResolve(p)
    \/ SyncRule(p)
    \/ SyncRowCheck(p)
    \/ SyncRowFetch(p)
    \/ SyncWrite(p)
    \/ \E id \in Ids, profile \in Profiles, root \in CacheRoots, refresh \in BOOLEAN,
          askIn \in AskInputs :
         AskBegin(p, id, profile, root, refresh, askIn)
    \/ AskReread(p)
    \/ AskRank(p)

SpecDisk == InitDisk /\ [][NextDisk]_vars

-----------------------------------------------------------------------------
(* Properties of the manifest store under SpecDisk *)

SameDescriptor(json, doc) ==
  /\ json.accession = doc.accession
  /\ json.path = doc.path
  /\ json.form = doc.form
  /\ json.filing_date = doc.filing_date

\* C6: when a sync has returned, the manifest file of its (entity, profile)
\* is a manifest whose descriptor list is the docs list of the report, entry
\* by entry in the same order, and every descriptor in it is of a filing
\* this sync selected: nothing of the manifest found at the start is kept.
C6_ManifestReplacedWholesale ==
  \A p \in Procs :
    LET l == loc[p]
        f == FileAt(manifests, l.report.manifest_path)
    IN l.pc = "synced" =>
         /\ f.exists
         /\ f.raw.kind = "json"
         /\ f.raw.value.version = ManifestVersion
         /\ f.raw.value.cik = l.entity.cik
         /\ f.raw.value.profile = l.profile
         /\ Len(f.raw.value.docs) = Len(l.report.docs)
         /\ \A i \in 1..Len(l.report.docs) :
              /\ SameDescriptor(f.raw.value.docs[i], l.report.docs[i])
              /\ \E j \in 1..Len(l.selected) :
                   l.selected[j].accession = f.raw.value.docs[i].accession

\* A sync has returned whose manifest file held, when it started, a
\* descriptor of a filing the sync did not select.
C6_Witness ==
  \E p \in Procs :
    /\ loc[p].pc = "synced"
    /\ loc[p].startManifest.exists
    /\ HasAccession(PersistedDocs(loc[p].startManifest.raw), A4)
    /\ \A j \in 1..Len(loc[p].selected) : loc[p].selected[j].accession # A4
    /\ Len(loc[p].report.docs) > 0

\* The conditions the read must reject a JSON value for: a version other
\* than 1, or a descriptor without a path or an accession.
FailsValidation(value) ==
  \/ value.version # 1
  \/ \E i \in 1..Len(value.docs) :
       \/ value.docs[i].path \in {Undef, Null}
       \/ value.docs[i].accession \in {Undef, Null}

IsUnreadable(file) ==
  file.exists /\ (file.raw.kind = "garbage" \/ FailsValidation(file.raw.value))

\* C7: readCachedManifest returns absent when the manifest file does not
\* exist, throws 'Cached manifest is not valid JSON' when the file is no JSON,
\* throws 'Cached manifest is malformed' when the JSON has another version or
\* a descriptor without path or accession (both errors have the code
\* PARSE_ERROR), and returns a manifest only if none of this is the case;
\* runResearchAskById with refresh off that finds such a file fails before
\* any sync starts.
C7_ReadClassifies ==
  /\ \A root \in CacheRoots, profile \in Profiles :
       LET file == FileAt(manifests, profileManifestPath(root, DiskCik, profile))
           read == readCachedManifest(manifests, root, DiskCik, profile)
       IN /\ ~file.exists => read.status = "absent"
          /\ (file.exists /\ file.raw.kind = "garbage")
               => /\ read.status = "error"
                  /\ read.err.code = "PARSE_ERROR"
                  /\ read.err.msg = "Cached manifest is not valid JSON"
          /\ (file.exists /\ file.raw.kind = "json" /\ FailsValidation(file.raw.value))
               => /\ read.status = "error"
                  /\ read.err.code = "PARSE_ERROR"
                  /\ read.err.msg = "Cached manifest is malformed"
          /\ read.status = "ok" => ~IsUnreadable(file) /\ read.manifest = file.raw.value
  /\ \A p \in Procs :
       LET l == loc[p]
       IN (l.op = "ask" /\ ~l.refresh /\ IsUnreadable(l.readFile))
            => /\ l.pc = "failed"
               /\ l.failedAt = "idle"
               /\ l.firstRead \in {"none", "error"}
               /\ l.err.code \in {"PARSE_ERROR", "VALIDATION_ERROR", "NETWORK_ERROR"}

\* An ask with refresh off has failed on a manifest that has an empty
\* document list and the wrong version.
C7_Witness ==
  \E p \in Procs :
    /\ loc[p].op = "ask"
    /\ ~loc[p].refresh
    /\ loc[p].pc = "failed"
    /\ loc[p].firstRead = "error"
    /\ loc[p].err.msg = "Cached manifest is malformed"
    /\ loc[p].readFile.raw.kind = "json"
    /\ loc[p].readFile.raw.value.version = 2
    /\ Len(loc[p].readFile.raw.value.docs) = 0

-----------------------------------------------------------------------------
(* The manifest store called directly: writeCachedManifest and             *)
(* readCachedManifest on several cache roots, entities and profiles.       *)

MaxStoreCalls == 2

StoreRoots == {"/cache", "/srv/edgar"}

StoreCiks == {DiskCik, "0000789019"}

StoreDocLists ==
  { <<>>,
    <<DiskDoc(A1)>>,
    <<DiskDoc(A4), [DiskDoc(A1) EXCEPT !.form = Null]>> }

\* The valid manifests written.
StoreManifests ==
  { [version |-> ManifestVersion, id_input |-> "AAPL", cik |-> cik, ticker |-> Null,
     title |-> Null, profile |-> profile, synced_at |-> nowIso, docs |-> docs] :
      cik \in StoreCiks, profile \in Profiles, docs \in StoreDocLists }

StoreWrite(cacheRoot, manifest) ==
  /\ calls < MaxStoreCalls
  /\ manifests' = writeCachedManifest(manifests, cacheRoot, manifest)
  /\ call' = [fn |-> "write", cacheRoot |-> cacheRoot, manifest |-> manifest]
  /\ ret' = NoRet
  /\ calls' = calls + 1
  /\ UNCHANGED <<search, http, cli, catalog, gone, files, loc, active, lastOk>>

StoreRead(cacheRoot, cik, profile) ==
  /\ calls < MaxStoreCalls
  /\ ret' = [fn |-> "read", cacheRoot |-> cacheRoot, cik |-> cik, profile |-> profile,
             read |-> readCachedManifest(manifests, cacheRoot, cik, profile)]
  /\ calls' = calls + 1
  /\ UNCHANGED <<call, search, http, cli, catalog, gone, files, manifests, loc, active, lastOk>>

InitStore ==
  /\ catalog = CatalogA
  /\ gone = {}
  /\ call = NoCall
  /\ ret = NoRet
  /\ calls = 0
  /\ search = NoSearchCall
  /\ http = NoRequest
  /\ cli = NoInvocation
  /\ files = NoFiles
  /\ manifests \in
       {NoManifests,
        PutFile(NoManifests, profileManifestPath("/cache", DiskCik, "core"), Garbage),
        PutFile(NoManifests, profileManifestPath("/srv/edgar", DiskCik, "events"),
                DiskManifest("events", <<DiskDoc(A3)>>))}
  /\ loc = [p \in Procs |-> IdleLoc]
  /\ active = {}
  /\ lastOk = NoKey

NextStore ==
  \/ \E cacheRoot \in StoreRoots, manifest \in StoreManifests :
       StoreWrite(cacheRoot, manifest)
  \/ \E cacheRoot \in StoreRoots, cik \in StoreCiks, profile \in Profiles :
       StoreRead(cacheRoot, cik, profile)

SpecStore == InitStore /\ [][NextStore]_vars

\* C8: a read that follows the write of a valid manifest, for the cache
\* root, cik and profile of that manifest, returns a manifest with the same
\* id_input, cik and profile and the same descriptors (accession, path,
\* form, filing date) in the same order.
C8_ManifestRoundTrip ==
  (/\ ret.fn = "read"
   /\ call.fn = "write"
   /\ ret.cacheRoot = call.cacheRoot
   /\ ret.cik = call.manifest.cik
   /\ ret.profile = call.manifest.profile)
    => /\ ret.read.status = "ok"
       /\ ret.read.manifest.cik = call.manifest.cik
       /\ ret.read.manifest.id_input = call.manifest.id_input
       /\ ret.read.manifest.profile = call.manifest.profile
       /\ Len(ret.read.manifest.docs) = Len(call.manifest.docs)
       /\ \A i \in 1..Len(call.manifest.docs) :
            SameDescriptor(ret.read.manifest.docs[i], call.manifest.docs[i])

\* A manifest with two descriptors was written and read back.
C8_Witness ==
  /\ ret.fn = "read"
  /\ call.fn = "write"
  /\ ret.cacheRoot = call.cacheRoot
  /\ ret.cik = call.manifest.cik
  /\ ret.profile = call.manifest.profile
  /\ Len(call.manifest.docs) = 2
  /\ ret.read.status = "ok"
  /\ call.cacheRoot = "/cache"
  /\ call.manifest.profile = "core"
  /\ call.manifest.cik = DiskCik

-----------------------------------------------------------------------------
(* chunkDocument called directly on bounded documents *)

MaxDocLines == 4

MaxChunkLines == 3

\* The lines documents are made of: two with text, an empty one and one of
\* white space.
ChunkLinePool ==
  { << "a", "b" >>, << "c", "d", " ", "e", "f" >>, << >>, << " " >> }

SeqsUpTo(S, n) == UNION {[1..k -> S] : k \in 0..n}

ChunkInputs ==
  { [docPath |-> "/docs/note.md", content |-> JoinLines(lines),
     chunkLines |-> chunkLines, chunkOverlap |-> chunkOverlap] :
      lines \in SeqsUpTo(ChunkLinePool, MaxDocLines),
      chunkLines \in 1..MaxChunkLines,
      chunkOverlap \in 0..(MaxChunkLines - 1) }

ChunkCall ==
  /\ call.fn = "chunk"
  /\ ret.fn = "none"
  /\ ret' = [fn |-> "chunk",
             chunks |-> chunkDocument(call.docPath, call.content, call.chunkLines,
                                      call.chunkOverlap)]
  /\ calls' = calls + 1
  /\ UNCHANGED <<call, search, http, cli, catalog, gone, files, manifests, loc, active, lastOk>>

InitChunk ==
  /\ catalog = CatalogA
  /\ gone = {}
  /\ \E in \in ChunkInputs :
       /\ in.chunkOverlap < in.chunkLines
       /\ call = [fn |-> "chunk", docPath |-> in.docPath, content |-> in.content,
                  chunkLines |-> in.chunkLines, chunkOverlap |-> in.chunkOverlap]
  /\ ret = NoRet
  /\ calls = 0
  /\ search = NoSearchCall
  /\ http = NoRequest
  /\ cli = NoInvocation
  /\ files = NoFiles
  /\ manifests = NoManifests
  /\ loc = [p \in Procs |-> IdleLoc]
  /\ active = {}
  /\ lastOk = NoKey

NextChunk == ChunkCall

SpecChunk == InitChunk /\ [][NextChunk]_vars

IsBlankLine(line) == \A i \in 1..Len(line) : line[i] \in {" ", "\t", "\r"}

\* The document is N lines, none of them blank.
AllLinesNonBlank(content) ==
  \A i \in 1..Len(SplitLines(content)) : ~IsBlankLine(SplitLines(content)[i])

-----------------------------------------------------------------------------
(* runLexicalSearch called directly on bounded queries and documents *)

MaxRankDocs == 2

MaxTopK == 3

MaxRankChunkLines == 2

\* Queries: two terms, three terms (the hard filter applies), a stop word
\* only, a term no document has, and white space.  Documents: two cached
\* filings, a blank file, and a note with one term of the three-term query
\* whose text still contains the query's first bigram.
RankQueries ==
  { << "r", "e", "s", "i", "g", "n", "e", "d", " ", "b", "o", "a", "r", "d" >>,
    << "r", "e", "v", "e", "n", "u", "e", " ", "g", "u", "i", "d", "a", "n",
       "c", "e", " ", "c", "h", "a", "n", "g", "e", "d" >>,
    << "t", "h", "e" >>,
    << "z", "z" >>,
    << " " >> }

RankDocPool ==
  { [path |-> filingDocPath("/cache", DiskCik, A1),
     content |-> WithFinalNewline(MarkdownA1)],
    [path |-> filingDocPath("/cache", DiskCik, A3),
     content |-> WithFinalNewline(MarkdownA3)],
    [path |-> "/docs/blank.md", content |-> << " ", "\n" >>],
    [path |-> "/docs/notes.md",
     content |-> << "R", "e", "v", "e", "n", "u", "e", " ", "g", "u", "i", "d",
                    "a", "n", "c", "e", "s", "\n" >>] }

\* Lists of distinct documents.
RankDocLists ==
  {docs \in SeqsUpTo(RankDocPool, MaxRankDocs) :
     \A i, j \in 1..Len(docs) : i # j => docs[i] # docs[j]}

RankCall ==
  /\ call.fn = "rank"
  /\ ret.fn = "none"
  /\ LET invalid == SearchValidation(call.query, call.chunkLines, call.chunkOverlap)
         queryTerms == buildQueryTerms(Trim(call.query))
     IN ret' = IF invalid.code # ""
                 THEN [fn |-> "rank", err |-> invalid, data |-> NoSearch,
                       queryTerms |-> <<>>, scored |-> <<>>]
               ELSE LET searched == runLexicalSearch(call.query, call.docs, call.topK,
                                                     call.chunkLines, call.chunkOverlap)
                    IN [fn |-> "rank", err |-> searched.err, data |-> searched.data,
                        queryTerms |-> queryTerms,
                        scored |-> ScoredChunks(
                                     AllChunks(call.docs, call.chunkLines,
                                               call.chunkOverlap),
                                     queryTerms)]
  /\ calls' = calls + 1
  /\ UNCHANGED <<call, search, http, cli, catalog, gone, files, manifests, loc, active, lastOk>>

InitRank ==
  /\ catalog = CatalogA
  /\ gone = {}
  /\ \E query \in RankQueries, docs \in RankDocLists, topK \in 1..MaxTopK,
        chunkLines \in 1..MaxRankChunkLines, chunkOverlap \in 0..(MaxRankChunkLines - 1) :
       call = [fn |-> "rank", query |-> query, docs |-> docs, topK |-> topK,
               chunkLines |-> chunkLines, chunkOverlap |-> chunkOverlap]
  /\ ret = NoRet
  /\ calls = 0
  /\ search = NoSearchCall
  /\ http = NoRequest
  /\ cli = NoInvocation
  /\ files = NoFiles
  /\ manifests = NoManifests
  /\ loc = [p \in Procs |-> IdleLoc]
  /\ active = {}
  /\ lastOk = NoKey

NextRank == RankCall

SpecRank == InitRank /\ [][NextRank]_vars

\* The chunk's text has none of the query terms among its tokens.
HasNoQueryTerm(chunk, queryTerms) ==
  \A i \in 1..Len(queryTerms) : queryTerms[i] \notin Range(tokenize(chunk.text))

IsResultOf(chunk, results) ==
  \E i \in 1..Len(results) :
    results[i].path = chunk.docPath /\ results[i].line_start = chunk.lineStart

\* C10: in every ranking, a chunk that has none of the query terms is given
\* the adjusted score 0 and is not among the results.
C10_NoTermNoResult ==
  ret.fn = "rank" =>
    \A i \in 1..Len(ret.scored) :
      HasNoQueryTerm(ret.scored[i].chunk, ret.queryTerms)
        => /\ ret.scored[i].score = 0
           /\ ~IsResultOf(ret.scored[i].chunk, ret.data.results)

\* A ranking returned fewer results than top_k although a chunk without any
\* query term was among the candidates.
C10_Witness ==
  /\ ret.fn = "rank"
  /\ ret.err.code = ""
  /\ ret.data.result_count >= 1
  /\ ret.data.result_count < call.topK
  /\ \E i \in 1..Len(ret.scored) :
       HasNoQueryTerm(ret.scored[i].chunk, ret.queryTerms)

-----------------------------------------------------------------------------
(* runLexicalSearch as a process: the parameter checks, then one read task  *)
(* per document path, all started together and settling in any order, then *)
(* the ranking once Promise.all fulfils                                     *)

MaxSearchDocs == 2

MaxSearchTopK == 2

\* What a path holds on disk: a text file (two of them with the same text),
\* nothing, a directory, or a file with a NUL character in it.
SearchDocPool ==
  { [path |-> filingDocPath("/cache", DiskCik, A1), kind |-> "file",
     content |-> WithFinalNewline(MarkdownA1)],
    [path |-> "/docs/copy.md", kind |-> "file",
     content |-> WithFinalNewline(MarkdownA1)],
    [path |-> "/docs/blank.md", kind |-> "file", content |-> << " ", "\n" >>],
    [path |-> "/docs/missing.md", kind |-> "missing", content |-> <<>>],
    [path |-> "/docs/dir", kind |-> "directory", content |-> <<>>],
    [path |-> "/docs/image.bin", kind |-> "binary", content |-> << "\n" >>] }

SearchDocLists ==
  {docs \in SeqsUpTo(SearchDocPool, MaxSearchDocs) :
     /\ Len(docs) >= 1
     /\ \A i, j \in 1..Len(docs) : i # j => docs[i] # docs[j]}

\* Queries: one with terms, one with no alphanumeric token, a blank one.
SearchQueries ==
  { << "g", "u", "i", "d", "a", "n", "c", "e", " ", "c", "h", "a", "n", "g",
       "e", "d" >>,
    << "?", "!" >>,
    << " " >> }

\* <<chunkLines, chunkOverlap>>
SearchChunking == { <<2, 1>>, <<2, 2>>, <<1, 2>> }

\* The outcomes ensureReadableTextFile can have on a path.
ensureReadableTextFile(doc) ==
  IF doc.kind = "missing"
    THEN {Err("NOT_FOUND", "Document not found: " \o doc.path)}
  ELSE IF doc.kind = "directory"
    THEN {Err("VALIDATION_ERROR", "Path is not a file: " \o doc.path)}
  ELSE IF doc.kind = "binary"
    THEN {Err("VALIDATION_ERROR", "File appears to be binary: " \o doc.path),
          Err("VALIDATION_ERROR", "Unable to read document " \o doc.path)}
  ELSE {NoErr, Err("VALIDATION_ERROR", "Unable to read document " \o doc.path)}

\* Promise.all fulfils once every task has fulfilled.
AnyFulfilled(task) == \E i \in 1..Len(task) : task[i] = "ok"

AllFulfilled(task) == \A i \in 1..Len(task) : task[i] = "ok"

\* Lines 529-536 reject, or lines 538-553 start every read.
SearchBegin ==
  LET invalid == SearchValidation(search.query, search.chunkLines,
                                  search.chunkOverlap)
  IN /\ search.pc = "called"
     /\ search' =
          IF invalid.code # ""
            THEN [search EXCEPT !.pc = "thrown", !.err = invalid]
            ELSE [search EXCEPT
                    !.pc = "reading",
                    !.task = [i \in 1..Len(search.docs) |-> "pending"]]
     /\ UNCHANGED <<call, ret, calls, http, cli, catalog, gone, files, manifests,
                    loc, active, lastOk>>

\* One read task settles.  The first rejection rejects Promise.all and the
\* function throws it; a task settling after that changes nothing else.
ReadSettle(i) ==
  /\ search.pc \in {"reading", "thrown"}
  /\ i \in 1..Len(search.task)
  /\ search.task[i] = "pending"
  /\ \E outcome \in ensureReadableTextFile(search.docs[i]) :
       search' =
         IF outcome.code = ""
           THEN [search EXCEPT !.task[i] = "ok",
                               !.settled = Append(@, i)]
         ELSE IF search.pc = "reading"
           THEN [search EXCEPT !.task[i] = "failed",
                               !.settled = Append(@, i),
                               !.taskErr[i] = outcome,
                               !.pc = "thrown", !.err = outcome]
         ELSE [search EXCEPT !.task[i] = "failed",
                             !.settled = Append(@, i),
                             !.taskErr[i] = outcome]
  /\ UNCHANGED <<call, ret, calls, http, cli, catalog, gone, files, manifests,
                 loc, active, lastOk>>

\* The documents in the order their reads settled in.
ReadResultsAsSettled(s) ==
  [k \in 1..Len(s.settled) |->
     [path |-> s.docs[s.settled[k]].path,
      content |-> s.docs[s.settled[k]].content]]

\* The array Promise.all fulfils with: the documents in the order of the
\* paths, whatever the order the reads settled in.
ReadResults(s) ==
  [i \in 1..Len(s.docs) |->
     [path |-> s.docs[i].path, content |-> s.docs[i].content]]

\* Lines 555-642 once every read has fulfilled.
SearchFinish ==
  LET docs == ReadResults(search)
      searched == runLexicalSearch(search.query, docs, search.topK,
                                   search.chunkLines, search.chunkOverlap)
  IN /\ search.pc = "reading"
     /\ AllFulfilled(search.task)
     /\ search' = IF searched.err.code # ""
                    THEN [search EXCEPT !.pc = "thrown", !.err = searched.err]
                    ELSE [search EXCEPT !.pc = "returned",
                                        !.data = searched.data]
     /\ UNCHANGED <<call, ret, calls, http, cli, catalog, gone, files, manifests,
                    loc, active, lastOk>>

InitSearch ==
  /\ catalog = CatalogA
  /\ gone = {}
  /\ files = NoFiles
  /\ manifests = NoManifests
  /\ loc = [p \in Procs |-> IdleLoc]
  /\ active = {}
  /\ lastOk = NoKey
  /\ call = NoCall
  /\ ret = NoRet
  /\ calls = 0
  /\ http = NoRequest
  /\ cli = NoInvocation
  /\ \E query \in SearchQueries, docs \in SearchDocLists,
        chunking \in SearchChunking, topK \in 1..MaxSearchTopK :
       search = [pc |-> "called", query |-> query, docs |-> docs, topK |-> topK,
                 chunkLines |-> chunking[1], chunkOverlap |-> chunking[2],
                 task |-> [i \in 1..Len(docs) |-> "unstarted"],
                 taskErr |-> [i \in 1..Len(docs) |-> NoErr],
                 settled |-> <<>>, err |-> NoErr, data |-> NoSearch]

NextSearch ==
  \/ SearchBegin
  \/ \E i \in 1..MaxSearchDocs : ReadSettle(i)
  \/ SearchFinish

SpecSearch == InitSearch /\ [][NextSearch]_vars

\* C11: a search whose chunk overlap is not below its chunk length fails with
\* a validation error, and it does so before any document read is started
\* and with no chunk computed: no read task exists and there is no result.
C11_OverlapRejectedFirst ==
  (search.pc \notin {"none", "called"}
     /\ search.chunkOverlap >= search.chunkLines)
    => /\ search.pc = "thrown"
       /\ search.err.code = "VALIDATION_ERROR"
       /\ \A i \in 1..Len(search.task) : search.task[i] = "unstarted"
       /\ search.data = NoSearch

\* The overlap was rejected although one of the documents does not exist.
C11_Witness ==
  /\ search.pc = "thrown"
  /\ search.chunkOverlap > search.chunkLines
  /\ \E i \in 1..Len(search.docs) : search.docs[i].kind = "missing"
  /\ search.err.msg = "--chunk-overlap must be less than --chunk-lines"

\* The ranking step of a search ran: every read fulfilled and the call is
\* over.
Ranked ==
  /\ search.pc \in {"returned", "thrown"}
  /\ Len(search.task) >= 1
  /\ AllFulfilled(search.task)

SearchChunks ==
  AllChunks(ReadResults(search), search.chunkLines, search.chunkOverlap)

NoQueryTerms == tokenize(Trim(search.query)) = <<>>

NoTermsError ==
  /\ search.pc = "thrown"
  /\ search.err.code = "VALIDATION_ERROR"
  /\ search.err.msg = "Query must contain at least one alphanumeric token"
  /\ search.data = NoSearch

\* C12 as stated: a ranking whose query has no usable alphanumeric token
\* fails with a validation error, whatever the candidate chunk set is.
C12_NoTermsAlwaysRejected ==
  (Ranked /\ NoQueryTerms) => NoTermsError

\* C12, for candidate chunk sets that are not empty: a ranking whose query
\* has no usable alphanumeric token fails with a validation error and has no
\* result.
C12_NoTermsRejected ==
  (Ranked /\ NoQueryTerms /\ Len(SearchChunks) > 0) => NoTermsError

\* A query of punctuation was rejected after the documents had been read and
\* chunked.
C12_Witness ==
  /\ Ranked
  /\ NoQueryTerms
  /\ Len(SearchChunks) > 0
  /\ NoTermsError

\* C13: a ranking over an empty candidate chunk set (every document blank)
\* succeeds with an empty result set and result_count 0; it is not an error.
C13_EmptyChunkSetSucceeds ==
  (Ranked /\ Len(SearchChunks) = 0)
    => /\ search.pc = "returned"
       /\ search.err = NoErr
       /\ search.data.result_count = 0
       /\ search.data.results = <<>>

\* A search over a blank document returned.
C13_Witness ==
  /\ Ranked
  /\ Len(SearchChunks) = 0
  /\ search.pc = "returned"
  /\ Len(tokenize(Trim(search.query))) > 0
  /\ \E i \in 1..Len(search.docs) : search.docs[i].path = "/docs/blank.md"

\* The candidate chunks of the search in discovery order (the documents in
\* the order they were passed, each document's chunks in line order), with
\* their adjusted scores.
DiscoveryScored ==
  ScoredChunks(
    AllChunks([i \in 1..Len(search.docs) |->
                 [path |-> search.docs[i].path,
                  content |-> search.docs[i].content]],
              search.chunkLines, search.chunkOverlap),
    buildQueryTerms(Trim(search.query)))

Positive(scored) == {i \in 1..Len(scored) : scored[i].score > 0}

\* The place of chunk i among the chunks with a positive score: after those
\* with a higher score and after those with the same score discovered
\* earlier.
Place(scored, i) ==
  1 + Cardinality({j \in Positive(scored) :
                     \/ scored[j].score > scored[i].score
                     \/ /\ scored[j].score = scored[i].score
                        /\ j < i})

\* C14: the results of a ranking are the chunks with an adjusted score above
\* zero, by descending score and, for equal scores, in discovery order
\* (whatever order the reads completed in), cut to the first top_k and
\* ranked 1..n; result_count is n and at most top_k.
C14_ResultsRankedInDiscoveryOrder ==
  (search.pc = "returned" /\ search.data.hasTerms)
    => LET scored == DiscoveryScored
           n == Min(search.topK, Cardinality(Positive(scored)))
           results == search.data.results
       IN /\ search.data.result_count = n
          /\ Len(results) = n
          /\ n <= search.topK
          /\ \A r \in 1..n : results[r].rank = r
          /\ \A i \in Positive(scored) :
                LET at == Place(scored, i)
                IN at <= n
                     => /\ results[at].path = scored[i].chunk.docPath
                        /\ results[at].line_start = scored[i].chunk.lineStart
                        /\ results[at].line_end = scored[i].chunk.lineEnd
                        /\ results[at].score = ScoreRounded(scored[i].score)

\* Two chunks of different documents tie for the first place, the second
\* document's read completed first, and more chunks score than top_k allows.
C14_Witness ==
  /\ search.pc = "returned"
  /\ search.data.hasTerms
  /\ search.settled = <<2, 1>>
  /\ LET scored == DiscoveryScored
     IN /\ Cardinality(Positive(scored)) > search.topK
        /\ search.data.result_count = search.topK
        /\ \E i, j \in Positive(scored) :
             /\ i < j
             /\ Place(scored, i) = 1
             /\ Place(scored, j) = 2
             /\ scored[i].score = scored[j].score
             /\ scored[i].chunk.docPath # scored[j].chunk.docPath

\* The read that failed first, in the order the reads settled.
FirstFailed ==
  LET failed == {k \in 1..Len(search.settled) :
                   search.task[search.settled[k]] = "failed"}
  IN search.settled[CHOOSE k \in failed : \A m \in failed : k <= m]

ReadsTogether ==
  (\E i \in 1..Len(search.task) : search.task[i] # "unstarted")
    => \A i \in 1..Len(search.task) : search.task[i] # "unstarted"

ReturnsAfterAllReads ==
  search.pc = "returned"
    => \A i \in 1..Len(search.task) : search.task[i] = "ok"

FailsWithFirstFailure ==
  (\E i \in 1..Len(search.task) : search.task[i] = "failed")
    => /\ search.pc = "thrown"
       /\ search.err = search.taskErr[FirstFailed]
       /\ search.data = NoSearch

LateReadsDiscarded ==
  search.pc = "thrown"
    => /\ search'.pc = "thrown"
       /\ search'.err = search.err
       /\ search'.data = search.data

\* C15: the reads of a search's documents are all started together; the
\* search returns only when every read has succeeded; a failed read fails the
\* search with the error of the read that failed first and without any
\* result; reads still pending then may complete, and what they yield changes
\* nothing.
C15_ReadsAllOrFirstFailure ==
  /\ [](ReadsTogether /\ ReturnsAfterAllReads /\ FailsWithFirstFailure)
  /\ [][LateReadsDiscarded]_vars

\* The second document's read failed first and the search threw its error;
\* the first document's read then completed successfully.
C15_Witness ==
  /\ search.pc = "thrown"
  /\ search.settled = <<2, 1>>
  /\ search.task = <<"ok", "failed">>
  /\ search.err.code = "NOT_FOUND"
  /\ search.data = NoSearch

\* The row a sync is working on and its cache path.
CurrentRow(l) == l.selected[l.rowIdx]

\* The cache check of a row that found the file, with refresh off: the row
\* is reused, no fetch follows and no cached file changes.
ReuseStep(p) ==
  LET l == loc[p]
      docPath == DocPathOf(l, CurrentRow(l))
  IN (l.pc = "rowcheck" /\ loc'[p].pc # "failed"
        /\ ~l.refresh /\ docPath \in DOMAIN files)
       => /\ loc'[p].reusedCount = l.reusedCount + 1
          /\ loc'[p].fetchedCount = l.fetchedCount
          /\ loc'[p].pc # "fetch"
          /\ loc'[p].docs = Append(l.docs, CachedDoc(CurrentRow(l), docPath))
          /\ files' = files

\* Any other cache check is followed by a fetch of the row.
FetchDecided(p) ==
  LET l == loc[p]
      docPath == DocPathOf(l, CurrentRow(l))
  IN (l.pc = "rowcheck" /\ loc'[p].pc # "failed"
        /\ (l.refresh \/ docPath \notin DOMAIN files))
       => /\ loc'[p].pc = "fetch"
          /\ loc'[p].reusedCount = l.reusedCount
          /\ loc'[p].fetchedCount = l.fetchedCount

\* A fetch that delivers content writes it to the row's cache path and the
\* row counts as fetched.
FetchStep(p) ==
  LET l == loc[p]
      docPath == DocPathOf(l, CurrentRow(l))
  IN (l.pc = "fetch" /\ loc'[p].pc # "failed"
        /\ Len(loc'[p].skipped) = Len(l.skipped))
       => /\ loc'[p].fetchedCount = l.fetchedCount + 1
          /\ loc'[p].reusedCount = l.reusedCount
          /\ loc'[p].docs = Append(l.docs, CachedDoc(CurrentRow(l), docPath))
          /\ docPath \in DOMAIN files'
          /\ files'[docPath]
               = WithFinalNewline(RemoteMarkdown(CurrentRow(l).accession))
          /\ \A f \in DOMAIN files : f # docPath => files'[f] = files[f]

\* Only the fetch of a row touches a cached document.
OnlyFetchWrites ==
  files' # files => \E p \in Procs : loc[p].pc = "fetch"

EmptyCacheAllFetched ==
  \A p \in Procs :
    LET l == loc[p]
    IN (l.pc = "synced" /\ l.startFiles = {})
         => /\ l.report.reused_count = 0
            /\ l.report.fetched_count = l.report.docs_count

\* C16: in a sync, a selected filing whose cache path exists while refresh
\* is off is marked reused, nothing is fetched for it and its cached file is
\* not modified; any other selected filing is fetched, its content written
\* to the cache path and it is marked fetched.  A sync into an empty cache
\* reports reused_count = 0 and fetched_count = docs_count.
C16_ReuseOrFetchPerFiling ==
  /\ []EmptyCacheAllFetched
  /\ [][/\ OnlyFetchWrites
        /\ \A p \in Procs : ReuseStep(p) /\ FetchDecided(p) /\ FetchStep(p)]_vars

\* A sync without refresh returned after reusing some cached filings and
\* fetching others.
C16_Witness ==
  \E p \in Procs :
    /\ loc[p].pc = "synced"
    /\ ~loc[p].refresh
    /\ loc[p].report.reused_count >= 1
    /\ loc[p].report.fetched_count >= 1
    /\ loc[p].report.fetched_count + loc[p].report.reused_count
         = loc[p].report.docs_count

-----------------------------------------------------------------------------
(* The command line: runCli, the actions of `research sync` and            *)
(* `research ask`, and executeCommand.  The handler a command runs is      *)
(* reduced to the outcomes it can have.                                     *)

EXIT_CODE_MAP(code) ==
  CASE code = "VALIDATION_ERROR" -> 2
    [] code = "DOCS_REQUIRED" -> 2
    [] code = "IDENTITY_REQUIRED" -> 3
    [] code = "RATE_LIMITED" -> 4
    [] code = "NOT_FOUND" -> 5
    [] code = "NETWORK_ERROR" -> 6
    [] code = "PARSE_ERROR" -> 7
    [] OTHER -> 10

\* z.coerce.number() on the option values used here; -1 stands for NaN.
CoerceNumber(value) ==
  CASE value = "0" -> 0
    [] value = "1" -> 1
    [] value = "8" -> 8
    [] value = "10" -> 10
    [] value = "40" -> 40
    [] OTHER -> -1

parsePositiveInt(value, argName) ==
  IF CoerceNumber(value) >= 1 THEN NoErr
  ELSE Err("VALIDATION_ERROR", argName \o " must be a positive integer")

parseNonNegativeInt(value, argName) ==
  IF CoerceNumber(value) >= 0 THEN NoErr
  ELSE Err("VALIDATION_ERROR", argName \o " must be a non-negative integer")

parseResearchProfile(value) ==
  IF value \in Profiles THEN NoErr
  ELSE Err("VALIDATION_ERROR", "--profile must be one of core|events|financials")

\* input.userAgent?.trim() || env.EDGAR_USER_AGENT?.trim() || undefined
\* (an option or variable that is not set is the empty text here)
RuntimeUserAgent(option, env) ==
  IF Len(Trim(option)) > 0 THEN Str(Trim(option))
  ELSE IF Len(Trim(env)) > 0 THEN Str(Trim(env))
  ELSE Undef

requireUserAgent(userAgent) ==
  IF userAgent # Undef THEN NoErr
  ELSE Err("IDENTITY_REQUIRED", "Missing SEC identity.")

\* An action that leaves requiresSecIdentity at its default.
RequiresSecIdentityByDefault(command, id) == TRUE

\* requiresSecIdentity as the two actions pass it to executeCommand.
RequiresSecIdentity(command, id) ==
  IF command = "research ask" THEN id # Undef ELSE TRUE

NullError == [code |-> Null, message |-> Null, retriable |-> FALSE]

successEnvelope(command, data, view) ==
  [kind |-> "envelope", ok |-> TRUE, command |-> command, provider |-> "sec",
   data |-> data, error |-> NullError,
   meta |-> [output_schema |-> "v1", view |-> view]]

\* (of the errors here only RATE_LIMITED is built with retriable = true)
failureEnvelope(command, e, view) ==
  [kind |-> "envelope", ok |-> FALSE, command |-> command, provider |-> "sec",
   data |-> Null,
   error |-> [code |-> e.code, message |-> e.msg,
              retriable |-> e.code = "RATE_LIMITED"],
   meta |-> [output_schema |-> "v1", view |-> view]]

\* An emitError that only knows the human mode.
emitErrorOnStderr(c, command, e, view, humanMode) ==
  [c EXCEPT !.pc = "exited", !.err = e,
            !.stderr = Append(@, e.code \o " " \o e.msg),
            !.exit = EXIT_CODE_MAP(e.code)]

\* emitError: the envelope on stdout, or a line on stderr in human mode; the
\* command is over with the error's exit code.
emitError(c, command, e, view, humanMode) ==
  IF humanMode
    THEN [c EXCEPT !.pc = "exited", !.err = e,
                   !.stderr = Append(@, e.code \o " " \o e.msg),
                   !.exit = EXIT_CODE_MAP(e.code)]
    ELSE [c EXCEPT !.pc = "exited", !.err = e,
                   !.stdout = Append(@, failureEnvelope(command, e, view)),
                   !.exit = EXIT_CODE_MAP(e.code)]

\* runCli's catch of an error that is neither a CLIAbortError nor a
\* CommanderError: a line on stderr.
RunCliCatch(c, e) ==
  [c EXCEPT !.pc = "exited", !.err = e,
            !.stderr = Append(@, e.code \o " " \o e.msg),
            !.exit = EXIT_CODE_MAP(e.code)]

\* Commander rejects the command line itself.
CommanderFails(c) ==
  [c EXCEPT !.pc = "exited",
            !.err = Err("commander", "required option not specified"),
            !.stderr = Append(@, "error: required option '--id <id>' not specified"),
            !.exit = 1]

FirstError(errs) ==
  LET bad == {i \in 1..Len(errs) : errs[i].code # ""}
  IN IF bad = {} THEN NoErr
     ELSE errs[CHOOSE i \in bad : \A j \in bad : i <= j]

\* actionResearchSync and actionResearchAsk up to their call of
\* executeCommand (--latest stands for --form and --latest).
CliAction ==
  LET a == cli.args
      parsed ==
        IF a.command = "research sync"
          THEN parseResearchProfile(a.profile)
          ELSE FirstError(<< parsePositiveInt(a.topK, "--top-k"),
                             parsePositiveInt(a.chunkLines, "--chunk-lines"),
                             parseNonNegativeInt(a.chunkOverlap, "--chunk-overlap"),
                             IF a.latest = Undef THEN NoErr
                             ELSE parsePositiveInt(a.latest, "--latest") >>)
  IN /\ cli.pc = "action"
     /\ cli' =
          IF a.command = "research sync" /\ a.id = Undef
            THEN CommanderFails(cli)
          ELSE IF parsed.code # "" THEN RunCliCatch(cli, parsed)
          ELSE IF a.command = "research sync" THEN [cli EXCEPT !.pc = "execute"]
          ELSE IF a.id = Undef /\ a.latest # Undef
            THEN emitError(cli, "research ask",
                           Err("VALIDATION_ERROR", "--form and --latest require --id"),
                           "summary", FALSE)
          ELSE IF parseResearchProfile(a.profile).code # ""
            THEN RunCliCatch(cli, parseResearchProfile(a.profile))
          ELSE [cli EXCEPT !.pc = "execute"]
     /\ UNCHANGED <<call, ret, calls, search, http, catalog, gone, files,
                    manifests, loc, active, lastOk>>

\* executeCommand up to the call of the handler.
CliExecute ==
  LET a == cli.args
      limit == IF a.limit = Undef THEN NoErr
               ELSE parsePositiveInt(a.limit, "--limit")
      userAgent == RuntimeUserAgent(a.userAgent, a.envUserAgent)
      identity == IF RequiresSecIdentity(a.command, a.id)
                    THEN requireUserAgent(userAgent) ELSE NoErr
  IN /\ cli.pc = "execute"
     /\ cli' =
          IF limit.code # "" THEN RunCliCatch(cli, limit)
          ELSE IF identity.code # ""
            THEN emitError(cli, a.command, identity, a.view, a.human)
          ELSE [cli EXCEPT !.pc = "handler", !.handlerStarted = TRUE]
     /\ UNCHANGED <<call, ret, calls, search, http, catalog, gone, files,
                    manifests, loc, active, lastOk>>

\* What the handler of a command can end with: "ok", the code of a CLIError,
\* or "Error" for any other exception.
HandlerOutcomes(a) ==
  IF a.command = "research ask" /\ a.id = Undef
    THEN IF a.docs = 0 THEN {"DOCS_REQUIRED"}
         ELSE {"ok", "VALIDATION_ERROR", "NOT_FOUND"}
  ELSE {"ok", "VALIDATION_ERROR", "NOT_FOUND", "NETWORK_ERROR", "RATE_LIMITED",
        "PARSE_ERROR", "Error"}
       \cup (IF a.command = "research ask" THEN {"DOCS_REQUIRED"} ELSE {})

toCliError(outcome) ==
  IF outcome = "Error" THEN Err("INTERNAL_ERROR", "Unexpected error")
  ELSE Err(outcome, "handler failed")

\* The handler runs to its end; executeCommand emits its result or its error.
\* The handlers of `research sync` and `research ask --id` talk to the SEC.
CliHandler ==
  LET a == cli.args
      started == [cli EXCEPT !.network = (a.command = "research sync" \/ a.id # Undef)]
  IN /\ cli.pc = "handler"
     /\ \E outcome \in HandlerOutcomes(a) :
          cli' =
            IF outcome # "ok"
              THEN emitError(started, a.command, toCliError(outcome), a.view, a.human)
            ELSE IF a.human
              THEN [started EXCEPT !.pc = "exited", !.exit = 0,
                                   !.stdout = Append(@, [kind |-> "text"])]
            ELSE [started EXCEPT
                    !.pc = "exited", !.exit = 0,
                    !.stdout = Append(@, successEnvelope(a.command, "data", a.view))]
     /\ UNCHANGED <<call, ret, calls, search, http, catalog, gone, files,
                    manifests, loc, active, lastOk>>

UserAgents == { <<>>, << " " >>, << "N", " ", "n", "@", "x", ".", "i", "o" >> }

CliArgs ==
  [command : {"research sync", "research ask"},
   id : {Undef, "AAPL"},
   userAgent : UserAgents,
   envUserAgent : {<<>>, << "E", " ", "e", "@", "x", ".", "i", "o" >>},
   human : BOOLEAN,
   view : {"summary"},
   limit : {Undef, "0"},
   profile : {"core", "bogus"},
   topK : {"8", "0"},
   chunkLines : {"40"},
   chunkOverlap : {"10", "x"},
   latest : {Undef, "1"},
   docs : {0, 1}]

InitCli ==
  /\ catalog = CatalogA
  /\ gone = {}
  /\ files = NoFiles
  /\ manifests = NoManifests
  /\ loc = [p \in Procs |-> IdleLoc]
  /\ active = {}
  /\ lastOk = NoKey
  /\ call = NoCall
  /\ ret = NoRet
  /\ calls = 0
  /\ search = NoSearchCall
  /\ http = NoRequest
  /\ \E a \in CliArgs :
       cli = [pc |-> "action", args |-> a, stdout |-> <<>>, stderr |-> <<>>,
              exit |-> -1, err |-> NoErr, handlerStarted |-> FALSE,
              network |-> FALSE]

NextCli == CliAction \/ CliExecute \/ CliHandler

SpecCli == InitCli /\ [][NextCli]_vars

\* The identity the command line and the environment give, if any.
HasIdentity ==
  \/ Len(Trim(cli.args.userAgent)) > 0
  \/ Len(Trim(cli.args.envUserAgent)) > 0

\* A `research ask` whose arguments were accepted and that is over.
AskExecuted ==
  /\ cli.pc = "exited"
  /\ cli.args.command = "research ask"
  /\ ~(cli.err.code = "VALIDATION_ERROR" /\ ~cli.handlerStarted)

\* C17: `research ask` needs an SEC identity exactly when --id is given.
\* Without --id the handler runs whether or not a user agent is set, and
\* with no documents it fails with DOCS_REQUIRED and exit code 2; with --id
\* and no user agent the command fails with IDENTITY_REQUIRED and exit code
\* 3 and the handler never starts, so nothing is requested from the SEC;
\* with --id and a user agent the handler starts.
C17_IdentityOnlyWithId ==
  AskExecuted
    => /\ (cli.args.id = Undef)
            => /\ cli.handlerStarted
               /\ cli.err.code # "IDENTITY_REQUIRED"
               /\ ~cli.network
               /\ (cli.args.docs = 0)
                     => cli.err.code = "DOCS_REQUIRED" /\ cli.exit = 2
       /\ (cli.args.id # Undef /\ ~HasIdentity)
            => /\ cli.err.code = "IDENTITY_REQUIRED"
               /\ cli.exit = 3
               /\ ~cli.handlerStarted
               /\ ~cli.network
       /\ (cli.args.id # Undef /\ HasIdentity)
            => cli.handlerStarted /\ cli.err.code # "IDENTITY_REQUIRED"

\* `research ask` without --id and without a user agent ran its handler on a
\* document and succeeded.
C17_Witness ==
  /\ AskExecuted
  /\ cli.args.id = Undef
  /\ ~HasIdentity
  /\ cli.args.docs = 1
  /\ cli.handlerStarted
  /\ cli.exit = 0

Envelopes == SelectSeq(cli.stdout, LAMBDA m : m.kind = "envelope")

\* Exactly one envelope is all there is on stdout, and it matches the exit
\* code.
OneEnvelope ==
  /\ Len(cli.stdout) = 1
  /\ Len(Envelopes) = 1
  /\ LET e == cli.stdout[1]
     IN /\ DOMAIN e = {"kind", "ok", "command", "provider", "data", "error", "meta"}
        /\ e.command = cli.args.command
        /\ e.provider = "sec"
        /\ e.ok => e.error = NullError /\ e.data # Null
        /\ ~e.ok => e.data = Null /\ e.error.code = cli.err.code
        /\ (cli.exit = 0) <=> e.ok
        /\ ~e.ok => cli.exit = EXIT_CODE_MAP(e.error.code)

\* C18 as stated, for the command lines Commander accepts: in JSON mode
\* every invocation that ends, a failure of the argument validation
\* included, has put exactly one envelope on stdout, with ok, command,
\* provider, data, error and meta, and exits with 0 iff ok and with the exit
\* code of error.code otherwise.
C18_AlwaysOneEnvelope ==
  (cli.pc = "exited" /\ ~cli.args.human /\ cli.err.code # "commander")
    => OneEnvelope

\* The failure was raised by an option parser outside executeCommand's try.
ParserThrew ==
  /\ cli.err.code = "VALIDATION_ERROR"
  /\ ~cli.handlerStarted
  /\ cli.err.msg # "--form and --latest require --id"

\* C18, for the invocations whose options parse: in JSON mode exactly one
\* envelope is on stdout, ok with error null on success, not ok with data
\* null and error.code on a failure, and the exit code is 0 iff ok and that
\* of error.code otherwise.
C18_OneEnvelopeOnceParsed ==
  (cli.pc = "exited" /\ ~cli.args.human /\ cli.err.code # "commander"
     /\ ~ParserThrew)
    => OneEnvelope

\* A JSON-mode command failed in its handler and exited with the code of the
\* error in its envelope.
C18_Witness ==
  /\ cli.pc = "exited"
  /\ ~cli.args.human
  /\ cli.handlerStarted
  /\ OneEnvelope
  /\ cli.stdout[1].error.code = "NOT_FOUND"
  /\ cli.exit = 5

-----------------------------------------------------------------------------
(* SecClient.request: up to MAX_ATTEMPTS fetches of one URL.  Pacing       *)
(* (paceRequests) delays a fetch and is left out.                           *)

MAX_ATTEMPTS == 4

\* What one fetch can bring: a response (status, Retry-After header, body;
\* bodyFails: reading the body rejects with a TypeError), or a fetch that
\* rejects with a TypeError or with another error.
Response(status, retryAfter, body) ==
  [fault |-> "none", status |-> status, retryAfter |-> retryAfter,
   body |-> body]

UNDECLARED_AUTOMATION_PHRASES ==
  { << "u", "n", "d", "e", "c", "l", "a", "r", "e", "d", " ", "a", "u", "t",
         "o", "m", "a", "t", "e", "d", " ", "t", "o", "o", "l" >>,
    << "p", "l", "e", "a", "s", "e", " ", "d", "e", "c", "l", "a", "r", "e",
         " ", "y", "o", "u", "r", " ", "t", "r", "a", "f", "f", "i", "c" >>,
    << "a", "c", "c", "e", "p", "t", "a", "b", "l", "e", " ", "p", "o", "l",
         "i", "c", "y" >> }

isUndeclaredAutomationBody(value) ==
  \E phrase \in UNDECLARED_AUTOMATION_PHRASES :
    Includes(toLowerCase(value), phrase)

BodyJson == << "{", "}" >>

BodyUndeclared ==
  << "Y", "o", "u", "r", " ", "R", "e", "q", "u", "e", "s", "t", " ", "O",
       "r", "i", "g", "i", "n", "a", "t", "e", "s", " ", "f", "r", "o", "m",
       " ", "a", "n", " ", "U", "n", "d", "e", "c", "l", "a", "r", "e", "d",
       " ", "A", "u", "t", "o", "m", "a", "t", "e", "d", " ", "T", "o", "o", "l" >>

BodyForbidden == << "F", "o", "r", "b", "i", "d", "d", "e", "n" >>

Fetches ==
  { Response(200, Null, BodyJson), Response(200, Null, << " " >>),
    Response(403, Null, BodyUndeclared), Response(403, Null, BodyForbidden),
    Response(404, Null, <<>>), Response(400, Null, <<>>),
    Response(429, Null, <<>>), Response(429, "2", <<>>),
    Response(429, "soon", <<>>),
    Response(503, "0", <<>>),
    Response(500, Null, <<>>),
    [Response(200, Null, <<>>) EXCEPT !.fault = "bodyTypeError"],
    [Response(403, Null, <<>>) EXCEPT !.fault = "bodyTypeError"],
    [Response(0, Null, <<>>) EXCEPT !.fault = "TypeError"],
    [Response(0, Null, <<>>) EXCEPT !.fault = "Error"] }

\* Math.floor(Math.random() * 120): its extremes.
Jitters == {0, 119}

\* A client that does not look at Retry-After.
retryAfterIgnored(headerValue) == -1

\* Milliseconds to wait, -1 for null.  parseInt on the headers used here;
\* a text that is neither a number nor a date gives null.
retryAfterMs(headerValue) ==
  CASE headerValue = "0" -> 0
    [] headerValue = "2" -> 2000
    [] OTHER -> -1

RECURSIVE Pow2(_)
Pow2(n) == IF n = 0 THEN 1 ELSE 2 * Pow2(n - 1)

Backoff(attempt, jitter) == 250 * Pow2(attempt - 1) + jitter

NetworkError(h, message, retriable) ==
  [h EXCEPT !.pc = "thrown", !.retriable = retriable,
            !.err = Err("NETWORK_ERROR", message)]

Thrown(h, code, message) ==
  [h EXCEPT !.pc = "thrown", !.err = Err(code, message)]

Retry(h, delay) ==
  [h EXCEPT !.attempt = h.attempt + 1, !.waits = Append(h.waits, delay)]

\* The loop without the status >= 500 test of line 176: every response that
\* is not ok is retried while attempts remain.
AttemptRetryingAnyStatus(h0, r, jitter) ==
  LET h == [h0 EXCEPT !.seen = Append(h0.seen, r)]
      more == h.attempt < MAX_ATTEMPTS
      headerDelay == retryAfterMs(r.retryAfter)
      delay == IF headerDelay >= 0 THEN headerDelay ELSE Backoff(h.attempt, jitter)
  IN IF r.fault \in {"TypeError", "bodyTypeError"}
       THEN IF more THEN Retry(h, Backoff(h.attempt, jitter))
            ELSE NetworkError(h, "fetch failed", TRUE)
     ELSE IF r.fault = "Error" THEN NetworkError(h, "fetch failed", FALSE)
     ELSE IF r.status = 403
       THEN IF isUndeclaredAutomationBody(r.body)
              THEN Thrown(h, "IDENTITY_REQUIRED",
                          "SEC rejected request as undeclared automation.")
              ELSE NetworkError(h, "403 Forbidden", FALSE)
     ELSE IF r.status = 404 THEN Thrown(h, "NOT_FOUND", "SEC resource not found")
     ELSE IF r.status = 429
       THEN IF more THEN Retry(h, delay)
            ELSE [h EXCEPT !.pc = "thrown", !.retriable = TRUE,
                           !.err = Err("RATE_LIMITED", "SEC rate limit reached")]
     ELSE IF r.status = 503
       THEN IF more THEN Retry(h, delay)
            ELSE NetworkError(h, "503 Service Unavailable", TRUE)
     ELSE IF r.status < 200 \/ r.status > 299
       THEN IF more THEN Retry(h, Backoff(h.attempt, jitter))
            ELSE NetworkError(h, "HTTP status", FALSE)
     ELSE IF h.kind = "json" /\ Len(Trim(r.body)) = 0
       THEN Thrown(h, "PARSE_ERROR", "SEC returned empty JSON response")
     ELSE [h EXCEPT !.pc = "returned", !.body = r.body]

\* One iteration of the loop of lines 119-202, for the fetch result r.
Attempt(h0, r, jitter) ==
  LET h == [h0 EXCEPT !.seen = Append(h0.seen, r)]
      more == h.attempt < MAX_ATTEMPTS
      headerDelay == retryAfterMs(r.retryAfter)
      delay == IF headerDelay >= 0 THEN headerDelay ELSE Backoff(h.attempt, jitter)
  IN IF r.fault \in {"TypeError", "bodyTypeError"}
       THEN IF more THEN Retry(h, Backoff(h.attempt, jitter))
            ELSE NetworkError(h, "fetch failed", TRUE)
     ELSE IF r.fault = "Error" THEN NetworkError(h, "fetch failed", FALSE)
     ELSE IF r.status = 403
       THEN IF isUndeclaredAutomationBody(r.body)
              THEN Thrown(h, "IDENTITY_REQUIRED",
                          "SEC rejected request as undeclared automation.")
              ELSE NetworkError(h, "403 Forbidden", FALSE)
     ELSE IF r.status = 404 THEN Thrown(h, "NOT_FOUND", "SEC resource not found")
     ELSE IF r.status = 429
       THEN IF more THEN Retry(h, delay)
            ELSE [h EXCEPT !.pc = "thrown", !.retriable = TRUE,
                           !.err = Err("RATE_LIMITED", "SEC rate limit reached")]
     ELSE IF r.status = 503
       THEN IF more THEN Retry(h, delay)
            ELSE NetworkError(h, "503 Service Unavailable", TRUE)
     ELSE IF r.status < 200 \/ r.status > 299
       THEN IF r.status >= 500 /\ more THEN Retry(h, Backoff(h.attempt, jitter))
            ELSE NetworkError(h, "HTTP status", FALSE)
     ELSE IF h.kind = "json" /\ Len(Trim(r.body)) = 0
       THEN Thrown(h, "PARSE_ERROR", "SEC returned empty JSON response")
     ELSE [h EXCEPT !.pc = "returned", !.body = r.body]

RequestAttempt ==
  /\ http.pc = "attempt"
  /\ \E r \in Fetches, jitter \in Jitters : http' = Attempt(http, r, jitter)
  /\ UNCHANGED <<call, ret, calls, search, cli, catalog, gone, files, manifests,
                 loc, active, lastOk>>

InitHttp ==
  /\ catalog = CatalogA
  /\ gone = {}
  /\ files = NoFiles
  /\ manifests = NoManifests
  /\ loc = [p \in Procs |-> IdleLoc]
  /\ active = {}
  /\ lastOk = NoKey
  /\ call = NoCall
  /\ ret = NoRet
  /\ calls = 0
  /\ search = NoSearchCall
  /\ cli = NoInvocation
  /\ \E kind \in {"json", "text"} :
       http = [pc |-> "attempt", kind |-> kind, attempt |-> 1, seen |-> <<>>,
               waits |-> <<>>, body |-> <<>>, err |-> NoErr,
               retriable |-> FALSE]

NextHttp == RequestAttempt

SpecHttp == InitHttp /\ [][NextHttp]_vars

\* The request is over.
RequestOver == http.pc \in {"returned", "thrown"}

\* The wait the client owes after the k-th response.
WaitedAsToldOrBackedOff(k) ==
  LET r == http.seen[k]
  IN IF r.retryAfter = "2" THEN http.waits[k] = 2000
     ELSE IF r.retryAfter = "0" THEN http.waits[k] = 0
     ELSE \E j \in 0..119 : http.waits[k] = 250 * Pow2(k - 1) + j

\* C19: a 429 on attempt k < 4 makes the client wait (the Retry-After time if
\* the header gives one, otherwise the exponential backoff) and make another
\* attempt; a later successful response is returned as the result; when all
\* four attempts are answered 429 the request fails with RATE_LIMITED, marked
\* retriable.
C19_RetryOnRateLimit ==
  /\ \A k \in 1..Len(http.seen) :
       (http.seen[k].fault = "none" /\ http.seen[k].status = 429 /\ k < 4)
         => /\ Len(http.waits) >= k
            /\ WaitedAsToldOrBackedOff(k)
            /\ http.attempt > k
            /\ RequestOver => Len(http.seen) > k
  /\ (RequestOver /\ Len(http.seen) >= 1)
       => LET last == http.seen[Len(http.seen)]
          IN (last.fault = "none" /\ last.status = 200
                /\ Len(Trim(last.body)) > 0)
               => http.pc = "returned" /\ http.body = last.body
  /\ (Len(http.seen) = 4
        /\ \A k \in 1..4 : http.seen[k].fault = "none" /\ http.seen[k].status = 429)
       => /\ http.pc = "thrown"
          /\ http.err.code = "RATE_LIMITED"
          /\ http.retriable

\* A request was answered 429 with Retry-After, then 429 without, and then
\* succeeded.
C19_Witness ==
  /\ http.pc = "returned"
  /\ Len(http.seen) = 3
  /\ http.seen[1].status = 429 /\ http.seen[1].retryAfter = "2"
  /\ http.seen[2].status = 429 /\ http.seen[2].retryAfter = Null
  /\ http.waits = <<2000, 500>>
  /\ http.body = BodyJson

-----------------------------------------------------------------------------
(* bm25Score called twice on a chunk: as it is, and with one more          *)
(* occurrence of one query term while its token count, the other term      *)
(* frequencies and the corpus statistics stay the same                      *)

MaxTf == 3

MaxBmChunks == 3

MaxBmTokens == 7

BmTerms == << << "a", "a" >>, << "b", "b" >> >>

\* A chunk's termFrequency map, restricted to the query terms: only terms
\* that occur have an entry.
BmTermFrequency(tfs) ==
  [t \in {BmTerms[i] : i \in {j \in 1..Len(BmTerms) : tfs[j] > 0}} |->
     tfs[CHOOSE i \in 1..Len(BmTerms) : BmTerms[i] = t]]

\* tfs: the frequencies of the query terms in the chunk; tokenCount leaves
\* room for one more occurrence; dfs: the number of chunks with each term,
\* the chunk itself included when it has the term; the other chunks hold the
\* remaining tokens.
BmInputs ==
  { in \in [tfs : [1..Len(BmTerms) -> 0..MaxTf],
            dfs : [1..Len(BmTerms) -> 0..MaxBmChunks],
            term : 1..Len(BmTerms),
            tokenCount : 1..MaxBmTokens,
            totalTokens : 1..MaxBmTokens,
            totalChunkCount : 1..MaxBmChunks] :
      /\ in.tfs[1] + in.tfs[2] + 1 <= in.tokenCount
      /\ in.tokenCount <= in.totalTokens
      /\ in.totalChunkCount = 1 => in.totalTokens = in.tokenCount
      /\ \A i \in 1..Len(BmTerms) :
           /\ in.dfs[i] <= in.totalChunkCount
           /\ in.tfs[i] > 0 => in.dfs[i] >= 1
           /\ in.dfs[i] - (IF in.tfs[i] > 0 THEN 1 ELSE 0)
                <= in.totalTokens - in.tokenCount }

Bm25Call ==
  /\ call.fn = "bm25"
  /\ ret.fn = "none"
  /\ LET docFrequencyByTerm ==
           [t \in Range(BmTerms) |->
              call.dfs[CHOOSE i \in 1..Len(BmTerms) : BmTerms[i] = t]]
         chunk == [termFrequency |-> BmTermFrequency(call.tfs),
                   tokenCount |-> call.tokenCount]
         more == [chunk EXCEPT
                    !.termFrequency =
                       BmTermFrequency([call.tfs EXCEPT ![call.term] = @ + 1])]
     IN ret' = [fn |-> "bm25",
                score |-> bm25Score(BmTerms, chunk, docFrequencyByTerm,
                                    call.totalChunkCount, call.totalTokens),
                scoreMore |-> bm25Score(BmTerms, more, docFrequencyByTerm,
                                        call.totalChunkCount, call.totalTokens)]
  /\ calls' = calls + 1
  /\ UNCHANGED <<call, search, http, cli, catalog, gone, files, manifests, loc,
                 active, lastOk>>

InitBm25 ==
  /\ catalog = CatalogA
  /\ gone = {}
  /\ files = NoFiles
  /\ manifests = NoManifests
  /\ loc = [p \in Procs |-> IdleLoc]
  /\ active = {}
  /\ lastOk = NoKey
  /\ \E in \in BmInputs :
       call = [fn |-> "bm25", tfs |-> in.tfs, dfs |-> in.dfs, term |-> in.term,
               tokenCount |-> in.tokenCount, totalTokens |-> in.totalTokens,
               totalChunkCount |-> in.totalChunkCount]
  /\ ret = NoRet
  /\ calls = 0
  /\ search = NoSearchCall
  /\ http = NoRequest
  /\ cli = NoInvocation

NextBm25 == Bm25Call

SpecBm25 == InitBm25 /\ [][NextBm25]_vars

\* C20: one more occurrence of a query term in a chunk, with the chunk's
\* token count, the other term frequencies and the corpus statistics
\* unchanged, does not lower the chunk's BM25 base score.
C20_TfMonotone ==
  ret.fn = "bm25" => ret.scoreMore >= ret.score

\* A chunk that already had both query terms scored strictly higher with one
\* more occurrence of the first.
C20_Witness ==
  /\ ret.fn = "bm25"
  /\ call.tfs[1] >= 1
  /\ call.tfs[2] >= 1
  /\ call.term = 1
  /\ ret.score > 0
  /\ ret.scoreMore > ret.score

-----------------------------------------------------------------------------
(* C21: the rules of a profile are merged in listed order, first row wins *)

\* The rules a sync has evaluated so far: all of them once the loop is over.
RulesDone(l) ==
  IF l.pc = "rules" THEN l.ruleIdx - 1 ELSE Len(PROFILE_RULES[l.profile])

\* The accessions the first n rules of a profile return.
ReturnedBy(profile, n) ==
  UNION { { r.accession : r \in Range(RuleRows(catalog, PROFILE_RULES[profile][k])) }
          : k \in 1..n }

\* The row of an accession as the first rule that returns it lists it first.
FirstRuleRow(profile, n, acc) ==
  LET has(k) == \E r \in Range(RuleRows(catalog, PROFILE_RULES[profile][k])) :
                   r.accession = acc
      k == CHOOSE k \in 1..n : has(k) /\ \A j \in 1..(k - 1) : ~has(j)
      rows == RuleRows(catalog, PROFILE_RULES[profile][k])
      i == CHOOSE i \in 1..Len(rows) :
             /\ rows[i].accession = acc
             /\ \A j \in 1..(i - 1) : rows[j].accession # acc
  IN rows[i]

InSelection(l) == l.pc \in {"rules", "rowcheck", "fetch", "write"}

\* C21: while a sync selects and processes filings, the rules are taken in
\* listed order (the rule index counts up from 1 and the selection is the
\* merge of exactly the rules before it), every accession the evaluated rules
\* returned occurs in the selection exactly once, and its row is the one of
\* the first rule that returned it: a later rule never overwrites it.
C21_RulesMergedFirstWins ==
  \A p \in active :
    LET l == loc[p]
    IN InSelection(l) =>
         LET n == RulesDone(l)
         IN /\ l.ruleIdx \in 1..(Len(PROFILE_RULES[l.profile]) + 1)
            /\ \A i, j \in 1..Len(l.selected) :
                 l.selected[i].accession = l.selected[j].accession => i = j
            /\ Range(l.selected) =
                 { FirstRuleRow(l.profile, n, acc) : acc \in ReturnedBy(l.profile, n) }

\* A core sync over the catalog that lists A2 twice: the 10-K rule stored
\* A2's row, the 10-Q rule returned another row for A2, and the stored one
\* stayed.
C21_Witness ==
  \E p \in active :
    LET l == loc[p]
    IN /\ l.pc = "rowcheck"
       /\ l.profile = "core"
       /\ \E r \in Range(l.selected) : r.accession = A2 /\ r.form = "10-K"
       /\ \E r \in Range(RuleRows(catalog, PROFILE_RULES["core"][2])) :
            r.accession = A2 /\ r.form = "10-Q"

-----------------------------------------------------------------------------
(* C22: the hard filter of adjustedChunkScore *)

\* The distinct query terms among the tokens of a chunk's text.
DistinctTermsIn(chunk, queryTerms) ==
  Cardinality(Range(queryTerms) \cap Range(tokenize(chunk.text)))

\* C22: in every ranking for a query of three or more query terms, a chunk
\* whose text has fewer than two distinct query terms is given the adjusted
\* score 0 and is not among the results, whatever its base score, bigram hits
\* or coverage.
C22_HardFilterDropsChunk ==
  (ret.fn = "rank" /\ Len(ret.queryTerms) >= HardFilterMinTerms) =>
    \A i \in 1..Len(ret.scored) :
      DistinctTermsIn(ret.scored[i].chunk, ret.queryTerms) < HardFilterMinHits
        => /\ ret.scored[i].score = 0
           /\ ~IsResultOf(ret.scored[i].chunk, ret.data.results)

\* A ranking for a three-term query returned a result while a chunk with one
\* query term (so a positive base score) and a bigram hit was left out.
C22_Witness ==
  /\ ret.fn = "rank"
  /\ ret.err.code = ""
  /\ Len(ret.queryTerms) >= HardFilterMinTerms
  /\ ret.data.result_count >= 1
  /\ \E i \in 1..Len(ret.scored) :
       LET chunk == ret.scored[i].chunk
       IN /\ DistinctTermsIn(chunk, ret.queryTerms) = 1
          /\ countBigramHits(chunk.text, buildQueryBigrams(ret.queryTerms)) > 0
          /\ bm25Score(ret.queryTerms, chunk,
                       DocFrequency(ret.queryTerms,
                                    AllChunks(call.docs, call.chunkLines,
                                              call.chunkOverlap)),
                       Len(ret.scored),
                       TotalTokens(AllChunks(call.docs, call.chunkLines,
                                             call.chunkOverlap))) > 0
          /\ ~IsResultOf(chunk, ret.data.results)

-----------------------------------------------------------------------------
(* C23: the selection is handled in descending filing-date order *)

\* Where the rule merge put an accession: the first rule that returned it,
\* then its first position among that rule's rows.
MergeRank(profile, acc) ==
  LET rules == PROFILE_RULES[profile]
      has(k) == \E r \in Range(RuleRows(catalog, rules[k])) : r.accession = acc
      k == CHOOSE k \in 1..Len(rules) : has(k) /\ \A j \in 1..(k - 1) : ~has(j)
      rows == RuleRows(catalog, rules[k])
      i == CHOOSE i \in 1..Len(rows) :
             /\ rows[i].accession = acc
             /\ \A j \in 1..(i - 1) : rows[j].accession # acc
  IN k * (Len(catalog) + 1) + i

\* dates: the filing dates of a list, null where missing.  Descending as
\* strings with null as '', and for equal dates in rule-merge order.
DateOrdered(profile, accs, dates) ==
  \A i, j \in 1..Len(accs) :
    i < j =>
      \/ StrLess(OrEmpty(dates[j]), OrEmpty(dates[i]))
      \/ /\ OrEmpty(dates[i]) = OrEmpty(dates[j])
         /\ MergeRank(profile, accs[i]) < MergeRank(profile, accs[j])

\* The rows a sync has dealt with so far.
Processed(l) == SubSeq(l.selected, 1, l.rowIdx - 1)

\* C23: once the rules are merged, the selection is in descending filing-date
\* order, a missing date counting as the empty string (last), equal dates in
\* rule-merge order; the rows are processed in that order (the documents and
\* the skipped entries are, in order, the rows dealt with so far), and the
\* report and the manifest written list the documents in that order.
C23_DescendingFilingDate ==
  \A p \in active :
    LET l == loc[p]
        isSkipped(row) == \E i \in 1..Len(l.skipped) : l.skipped[i].accession = row.accession
        isDoc(row) == ~isSkipped(row)
        Accs(xs) == [i \in 1..Len(xs) |-> xs[i].accession]
    IN /\ l.pc \in {"rowcheck", "fetch", "write", "synced"} =>
            /\ DateOrdered(l.profile, Accs(l.selected),
                           [i \in 1..Len(l.selected) |-> l.selected[i].filingDate])
            /\ Accs(l.docs) = Accs(SelectSeq(Processed(l), isDoc))
            /\ Accs(l.skipped) = Accs(SelectSeq(Processed(l), isSkipped))
       /\ l.pc = "synced" =>
            LET written == JsonParse(manifests[l.report.manifest_path]).value.docs
            IN /\ l.report.docs = l.docs
               /\ DateOrdered(l.profile, Accs(l.report.docs),
                              [i \in 1..Len(l.docs) |-> l.report.docs[i].filing_date])
               /\ Accs(written) = Accs(l.docs)
               /\ DateOrdered(l.profile, Accs(written),
                              [i \in 1..Len(written) |-> written[i].filing_date])

\* A sync reported three documents: two filings of the same day in their
\* rule-merge order, and the filing without a date last.
C23_Witness ==
  \E p \in active :
    LET l == loc[p]
        n == Len(l.report.docs)
    IN /\ l.pc = "synced"
       /\ n >= 3
       /\ l.report.docs[n].filing_date = Null
       /\ \E i \in 1..(n - 1) :
            /\ l.report.docs[i].filing_date # Null
            /\ l.report.docs[i].filing_date = l.report.docs[i + 1].filing_date

-----------------------------------------------------------------------------
(* buildQueryTerms called on queries made of a few words *)

MaxQueryWords == 3

\* Words of a query: stop words (one capitalised, one with punctuation), ordinary
\* words, a single letter, a token with a digit, and a form name that the
\* hyphen splits into a number and a single letter.
QueryWords ==
  { << "T", "h", "e" >>,
    << "o", "f" >>,
    << "R", "e", "v", "e", "n", "u", "e" >>,
    << "g", "r", "o", "w", "t", "h" >>,
    << "x" >>,
    << "Q", "3" >>,
    << "1", "0", "-", "K", "," >>,
    << "w", "h", "y", "?" >> }

\* The words of a list separated by single spaces.
RECURSIVE JoinWords(_)
JoinWords(ws) ==
  IF ws = <<>> THEN <<>>
  ELSE IF Len(ws) = 1 THEN ws[1]
  ELSE ws[1] \o <<" ">> \o JoinWords(Tail(ws))

TermsCall ==
  /\ call.fn = "terms"
  /\ ret.fn = "none"
  /\ ret' = [fn |-> "terms", terms |-> buildQueryTerms(call.query)]
  /\ calls' = calls + 1
  /\ UNCHANGED <<call, search, http, cli, catalog, gone, files, manifests, loc, active, lastOk>>

InitTerms ==
  /\ catalog = CatalogA
  /\ gone = {}
  /\ \E ws \in SeqsUpTo(QueryWords, MaxQueryWords) :
       call = [fn |-> "terms", query |-> JoinWords(ws)]
  /\ ret = NoRet
  /\ calls = 0
  /\ search = NoSearchCall
  /\ http = NoRequest
  /\ cli = NoInvocation
  /\ files = NoFiles
  /\ manifests = NoManifests
  /\ loc = [p \in Procs |-> IdleLoc]
  /\ active = {}
  /\ lastOk = NoKey

NextTerms == TermsCall

SpecTerms == InitTerms /\ [][NextTerms]_vars

IsStopWord(token) == Str(token) \in QUERY_STOPWORDS

\* The position of a token's first occurrence in a list.
FirstIndex(tokens, t) ==
  CHOOSE i \in 1..Len(tokens) : tokens[i] = t /\ \A j \in 1..(i - 1) : tokens[j] # t

\* C24: the query terms are tokens of the query (runs of lower-case letters
\* and digits, two characters or more), without duplicates and in the order
\* of their first occurrence; they are exactly the tokens that are not stop
\* words, or every token when all of them are stop words; so a stop word is
\* among the query terms only when the query has no other token.
C24_QueryTerms ==
  ret.fn = "terms" =>
    LET raw == tokenize(call.query)
        kept == {t \in Range(raw) : ~IsStopWord(t)}
        terms == ret.terms
    IN /\ \A i \in 1..Len(terms) :
            /\ Len(terms[i]) >= MinTokenLength
            /\ \A k \in 1..Len(terms[i]) : IsAlnum(terms[i][k])
       /\ \A i, j \in 1..Len(terms) : terms[i] = terms[j] => i = j
       /\ Range(terms) = IF kept # {} THEN kept ELSE Range(raw)
       /\ \A i, j \in 1..Len(terms) :
            i < j => FirstIndex(raw, terms[i]) < FirstIndex(raw, terms[j])
       /\ (\E i \in 1..Len(terms) : IsStopWord(terms[i]))
            => \A i \in 1..Len(raw) : IsStopWord(raw[i])

\* A query of stop words only (one of them capitalised) kept them as its terms.
C24_Witness ==
  /\ ret.fn = "terms"
  /\ Len(ret.terms) = 2
  /\ \A i \in 1..Len(ret.terms) : IsStopWord(ret.terms[i])
  /\ \E k \in 1..Len(call.query) : call.query[k] # LowerChar(call.query[k])

-----------------------------------------------------------------------------
(* C25: the counts of a sync report *)

\* C25: in every report a sync returns, docs_count is the length of docs and
\* the sum of fetched_count and reused_count, skipped_count is the length of
\* skipped, every accession the profile's rules selected is either a document
\* or a skipped entry and none is both, and docs_count + skipped_count is the
\* number of distinct accessions selected.
C25_ReportPartitionsSelection ==
  \A p \in active :
    LET report == loc[p].report
    IN report.present =>
         LET selectedAccessions ==
               ReturnedBy(report.profile, Len(PROFILE_RULES[report.profile]))
             docAccessions == { d.accession : d \in Range(report.docs) }
             skippedAccessions == { s.accession : s \in Range(report.skipped) }
         IN /\ report.docs_count = Len(report.docs)
            /\ report.docs_count = report.fetched_count + report.reused_count
            /\ report.skipped_count = Len(report.skipped)
            /\ docAccessions \cup skippedAccessions = selectedAccessions
            /\ docAccessions \cap skippedAccessions = {}
            /\ report.docs_count + report.skipped_count
                 = Cardinality(selectedAccessions)

\* A sync reported a fetched document, a reused one and a skipped filing.
C25_Witness ==
  \E p \in active :
    LET report == loc[p].report
    IN /\ report.present
       /\ report.fetched_count >= 1
       /\ report.reused_count >= 1
       /\ report.skipped_count >= 1

-----------------------------------------------------------------------------
(* C26: when runResearchAskById syncs *)

\* The ask must sync: refresh is on, or its first read found the manifest
\* absent or without documents.
AskMustSync(l) == l.refresh \/ l.firstRead \in {"absent", "empty"}

\* The ask is inside its sync, or the sync has returned.
AskSynced(l) ==
  l.pc \in {"resolve", "rules", "rowcheck", "fetch", "write", "synced"}
    \/ l.syncData.present
    \/ (l.pc = "failed" /\ l.failedAt # "idle" /\ l.failedAt # "rank")

\* The documents of the manifest file the ask read first.
ManifestDocsRead(l) == Len(l.readFile.raw.value.docs)

AskSyncsIffNeeded ==
  \A p \in active :
    LET l == loc[p]
    IN l.op = "ask" =>
         /\ AskSynced(l) => AskMustSync(l)
         /\ (AskMustSync(l) /\ l.pc \in {"rank", "done"}) => l.syncData.present
         /\ (~l.refresh /\ l.firstRead = "ok") =>
              /\ l.pc \in {"rank", "done", "failed"}
              /\ l.report = NoReport
              /\ l.answer.present =>
                   /\ l.answer.sync.fetched_count = 0
                   /\ l.answer.sync.skipped_count = 0
                   /\ l.answer.sync.reused_count = ManifestDocsRead(l)
                   /\ l.answer.sync.docs_count = ManifestDocsRead(l)

\* A step of an ask that read a valid manifest with documents writes nothing.
AskWithoutSyncWritesNothing ==
  \A p \in active :
    (loc[p].op = "ask" /\ ~loc[p].refresh /\ loc[p].firstRead = "ok")
      => files' = files /\ manifests' = manifests

\* A sync starts only with the call; an ask under way never starts another.
AskSyncsOnce ==
  \A p \in active :
    (loc[p].op = "ask" /\ loc'[p].op = "ask") =>
      /\ loc'[p].pc = "resolve" => loc[p].pc = "resolve"
      /\ loc[p].syncData.present => loc'[p].syncData = loc[p].syncData

\* C26: runResearchAskById runs a sync exactly when refresh is on or the
\* manifest it read is absent or has no documents, and at most once per call;
\* with refresh off and a valid manifest with documents it starts no sync (no
\* catalog or document request), writes no cached file and no manifest, and
\* its answer reports fetched_count = 0, skipped_count = 0 and reused_count =
\* docs_count = the number of documents in the manifest.
C26_AskSyncsOnlyWhenNeeded ==
  /\ []AskSyncsIffNeeded
  /\ [][AskWithoutSyncWritesNothing /\ AskSyncsOnce]_vars

\* An ask with refresh off answered from a manifest of two documents or more
\* without a sync.
C26_Witness ==
  \E p \in active :
    LET l == loc[p]
    IN /\ l.op = "ask"
       /\ l.pc = "done"
       /\ ~l.refresh
       /\ l.firstRead = "ok"
       /\ ~l.syncData.present
       /\ l.answer.sync.reused_count >= 2
       /\ l.answer.sync.reused_count = ManifestDocsRead(l)

-----------------------------------------------------------------------------
(* C27: an ask whose ranking parameters are invalid *)

\* The ask failed with the error runLexicalSearch raises for a blank query or
\* for chunkOverlap >= chunkLines.
RankingParametersRejected(l) ==
  /\ l.op = "ask"
  /\ l.pc = "failed"
  /\ l.err.code = "VALIDATION_ERROR"
  /\ l.err = SearchValidation(l.askIn.query, l.askIn.chunkLines, l.askIn.chunkOverlap)

\* C27: an ask by entity that fails with the validation error for its
\* ranking parameters has run no sync before, and the cache is as it was when
\* the call started: no cached document was added and the manifest file of
\* its (entity, profile) is the one that was there.
C27_ValidationLeavesCache ==
  \A p \in active :
    LET l == loc[p]
    IN RankingParametersRejected(l) =>
         /\ ~l.syncData.present
         /\ l.syncData.present =>
              /\ DOMAIN files = l.startFiles
              /\ ManifestFileOf(l) = l.startManifest

-----------------------------------------------------------------------------
(* C28: the chunks cover the text *)

Covers(chunk, k) == chunk.lineStart <= k /\ k <= chunk.lineEnd

\* C28: for 0 <= chunk_overlap < chunk_lines, every chunk has
\* 1 <= line_start <= line_end <= the number of lines of the document,
\* line_start and line_end both grow strictly from one chunk to the next, and
\* every line that has text lies in some chunk.
C28_ChunksCoverText ==
  (/\ ret.fn = "chunk"
   /\ 0 <= call.chunkOverlap
   /\ call.chunkOverlap < call.chunkLines)
    => LET chunks == ret.chunks
           lines == SplitLines(call.content)
       IN /\ \A i \in 1..Len(chunks) :
               /\ 1 <= chunks[i].lineStart
               /\ chunks[i].lineStart <= chunks[i].lineEnd
               /\ chunks[i].lineEnd <= Len(lines)
          /\ \A i \in 1..(Len(chunks) - 1) :
               /\ chunks[i].lineStart < chunks[i + 1].lineStart
               /\ chunks[i].lineEnd < chunks[i + 1].lineEnd
          /\ \A k \in 1..Len(lines) :
               Trim(lines[k]) # <<>> => \E i \in 1..Len(chunks) : Covers(chunks[i], k)

\* A window without text was skipped between two chunks: a blank line lies
\* in no chunk, after one chunk and before another.
C28_Witness ==
  /\ ret.fn = "chunk"
  /\ Len(ret.chunks) >= 2
  /\ \E k \in 1..Len(SplitLines(call.content)) :
       /\ \A i \in 1..Len(ret.chunks) : ~Covers(ret.chunks[i], k)
       /\ \E i \in 1..Len(ret.chunks) : ret.chunks[i].lineEnd < k
       /\ \E i \in 1..Len(ret.chunks) : ret.chunks[i].lineStart > k

-----------------------------------------------------------------------------
(* C29: every request ends within MAX_ATTEMPTS attempts.  Every await of    *)
(* the loop settles (the fetch resolves or rejects, a sleep ends), so an    *)
(* attempt that is due is eventually made: weak fairness of RequestAttempt. *)

SpecHttpLive == SpecHttp /\ WF_vars(RequestAttempt)

\* The attempt ended in a TypeError: fetch rejected, or reading the body of
\* the response did.
TransientTypeError(r) == r.fault \in {"TypeError", "bodyTypeError"}

\* What the claim lets the client retry after: 429, 503, another 5xx, or a
\* transient TypeError.
MayRetryAfter(r) ==
  \/ TransientTypeError(r)
  \/ r.fault = "none" /\ (r.status \in {429, 503} \/ r.status >= 500)

CLIErrorCodes ==
  {"NETWORK_ERROR", "RATE_LIMITED", "NOT_FOUND", "IDENTITY_REQUIRED", "PARSE_ERROR"}

RequestWithinAttempts ==
  /\ Len(http.seen) <= MAX_ATTEMPTS
  /\ http.pc = "attempt" => Len(http.seen) < MAX_ATTEMPTS
  /\ \A k \in 1..Len(http.seen) :
       \/ MayRetryAfter(http.seen[k])
       \/ k = Len(http.seen) /\ RequestOver
  /\ http.pc = "returned" =>
       LET last == http.seen[Len(http.seen)]
       IN /\ last.fault = "none"
          /\ last.status \in 200..299
          /\ http.body = last.body
  /\ http.pc = "thrown" => http.err.code \in CLIErrorCodes

\* C29: every request ends, after four fetch attempts at most, by returning
\* the body of a response with a 2xx status or by throwing a CLIError; an
\* attempt is followed by another only if it ended in 429, 503, another 5xx
\* or a transient TypeError, so none follows a success, a 403, a 404 or
\* another 4xx.
C29_RequestTerminates == []RequestWithinAttempts /\ <>RequestOver

\* A request made four attempts: a rejected fetch, a 500, a 503, and a
\* response whose body it returned.
C29_Witness ==
  /\ http.pc = "returned"
  /\ Len(http.seen) = 4
  /\ http.seen[1].fault = "TypeError"
  /\ http.seen[2].fault = "none" /\ http.seen[2].status = 500
  /\ http.seen[3].fault = "none" /\ http.seen[3].status = 503
  /\ http.body = BodyJson

-----------------------------------------------------------------------------
(* Two syncs at once on one cache root.  Each process runs one sync; their  *)
(* steps interleave at the awaits.  Nothing locks the cache: both may fetch *)
(* and write the same document, and both may write the same manifest file.  *)

\* writeFile of a manifest while another sync writes, or has just written,
\* the same file: both calls return, and the file may hold the shorter text
\* followed by the rest of the longer one, which is no JSON.
SyncWriteRaced(p) ==
  LET l == loc[p]
      manifestPath == profileManifestPath(l.root, l.entity.cik, l.profile)
  IN /\ l.pc = "write"
     /\ \E q \in active \ {p} :
          /\ loc[q].pc \in {"write", "synced"}
          /\ profileManifestPath(loc[q].root, loc[q].entity.cik, loc[q].profile)
               = manifestPath
     /\ manifests' = PutFile(manifests, manifestPath, Garbage)
     /\ Upd(p, [l EXCEPT !.pc = "synced", !.report = SyncReport(l)])
     /\ lastOk' = SyncKey(l)
     /\ UNCHANGED <<call, ret, calls, search, http, cli, catalog, gone, files, active>>

\* What a core sync of AAPL that ran alone to its end has collected.
EarlierSync ==
  LET rules == PROFILE_RULES["core"]
      merged == MergeRows(MergeRows(MergeRows(<<>>, RuleRows(catalog, rules[1])),
                                    RuleRows(catalog, rules[2])),
                          RuleRows(catalog, rules[3]))
      Found(row) == ~FetchNotFound(row, gone)
      kept == SelectSeq(SortRows(merged), Found)
  IN [IdleLoc EXCEPT
        !.id = "AAPL", !.profile = "core", !.root = "/cache",
        !.entity = resolveEntity("AAPL"),
        !.docs = [i \in 1..Len(kept) |->
                    CachedDoc(kept[i],
                              filingDocPath("/cache", resolveEntity("AAPL").cik,
                                            kept[i].accession))]]

\* The cache root when the two syncs start: empty, or as an earlier core
\* sync left it.
SharedDisks ==
  LET l == EarlierSync
  IN { [files |-> NoFiles, manifests |-> NoManifests],
       [files |-> [q \in {l.docs[i].path : i \in 1..Len(l.docs)} |->
                     LET i == CHOOSE i \in 1..Len(l.docs) : l.docs[i].path = q
                     IN WithFinalNewline(RemoteMarkdown(l.docs[i].accession))],
        manifests |-> writeCachedManifest(NoManifests, l.root, BuildManifest(l))] }

InitShared ==
  /\ \E remote \in Remotes : catalog = remote.catalog /\ gone = remote.gone
  /\ \E disk \in SharedDisks : files = disk.files /\ manifests = disk.manifests
  /\ call = NoCall
  /\ ret = NoRet
  /\ calls = 0
  /\ search = NoSearchCall
  /\ http = NoRequest
  /\ cli = NoInvocation
  /\ loc = [p \in Procs |-> IdleLoc]
  /\ active = Procs
  /\ lastOk = NoKey

NextShared ==
  \E p \in Procs :
    \/ \E profile \in Profiles, root \in CacheRoots, refresh \in BOOLEAN :
         InvokeSync(p, "AAPL", profile, root, refresh)
    \/ SyncResolve(p)
    \/ SyncRule(p)
    \/ SyncRowCheck(p)
    \/ SyncRowFetch(p)
    \/ SyncWrite(p)
    \/ SyncWriteRaced(p)

SpecShared == InitShared /\ [][NextShared]_vars

NoFileDeleted == DOMAIN files \subseteq DOMAIN files'

WrittenDescriptorsHaveFiles ==
  \A mp \in DOMAIN manifests :
    \A i \in 1..Len(PersistedDocs(manifests[mp])) :
      PersistedDocs(manifests[mp])[i].path \in DOMAIN files

\* C30: no step of a sync removes a cached document file, and under every
\* interleaving of two syncs on one cache root (same or different profiles,
\* with or without refresh) every descriptor of every manifest on disk has a
\* path at which a cached document file exists.
C30_WrittenDescriptorsKeepFiles ==
  /\ []WrittenDescriptorsHaveFiles
  /\ [][NoFileDeleted]_vars

\* Two syncs without refresh both fetched and wrote the same accession, both
\* returned, and a manifest with that descriptor is on disk.
C30_Witness ==
  \E p, q \in active :
    /\ p # q
    /\ loc[p].pc = "synced" /\ loc[q].pc = "synced"
    /\ ~loc[p].refresh /\ ~loc[q].refresh
    /\ loc[p].reusedCount = 0 /\ loc[q].reusedCount = 0
    /\ \E d \in Range(loc[p].docs) :
         /\ \E e \in Range(loc[q].docs) : e.accession = d.accession
         /\ \E mp \in DOMAIN manifests :
              \E i \in 1..Len(PersistedDocs(manifests[mp])) :
                PersistedDocs(manifests[mp])[i].accession = d.accession

====
